---- MODULE Spec2Model ----
(***************************************************************************)
(* State-machine model of the gravity-claw agent execution engine:         *)
(*   - withRetry                 (src/src/llm/retry.ts)                     *)
(*   - ToolRegistry.execute      (src/src/tools/registry.ts)                *)
(*   - runAgentLoop              (src/src/agent/loop.ts)                    *)
(*   - withUserLock and the three callers of runAgentLoop                  *)
(*                               (src/src/bot.ts, task-scheduler.ts,       *)
(*                                webhook-manager.ts)                      *)
(***************************************************************************)
EXTENDS Integers, Sequences, FiniteSets, TLC

VARIABLES
    \* ---- withRetry (one call of it) ----
    rPc,          \* "idle" | "call" (fn() in flight) | "sleep" | "ret" | "thrown"
    rMax,         \* maxRetries of this call
    rBase,        \* baseDelayMs of this call
    rAttempt,     \* the for-loop variable attempt
    rLastError,   \* lastError
    rThrown,      \* the error withRetry threw ("none" while it has not thrown)
    rCalls,       \* history: number of times fn() was invoked
    rSleeps,      \* history: the delays passed to sleep(), in order
    rAttemptErr   \* history: the error of the latest failed attempt

VARIABLES
    \* ---- ToolRegistry.execute (the invocation the loop is awaiting) ----
    xPc,          \* "idle" | "race" (awaiting Promise.race) | "settled"
    xName,        \* name argument of the invocation
    xResult,      \* what execute resolved with ("none" while it has not)
    xRejected,    \* TRUE iff execute rejected to its caller
    xTool,        \* the tool.execute promise: "none" | "pending" | "resolved" | "rejected"
    xTimer        \* the setTimeout timer: "none" | "armed" | "fired"

VARIABLES
    \* ---- runAgentLoop (one run) ----
    pc,                 \* "idle" | "ctx" | "loopHead" | "llm" | "forLoop" | "tool"
                        \* | "textTool" | "fallback" | "done" | "rejected"
    iterations,
    totalToolCalls,
    toolCallCounts,     \* Map<string, number>; 0 = absent
    lastToolSignature,
    repeatedToolCount,
    useTools,
    caught,             \* the error bound by `catch (error)`
    callIdx,            \* number of tool calls of message.tool_calls already handled
    result,             \* the AgentResult returned (NoResult before the return)
    lastContent,        \* content of the last message pushed since the last
                        \* provider request was sent ("none" if none was)
    saved               \* number of memoryManager.saveExchange calls of this run

VARIABLES
    \* ---- history of the run (not program state) ----
    llmCalls,           \* llm.chat.completions.create calls with the primary model,
                        \* counted while onlyToolCalls holds (0 afterwards)
    fbCalls,            \* ... with the fallback model
    fbRead,             \* config.fallbackModel as the catch block read it:
                        \* "unread" | "set" | "unset"
    onlyToolCalls,      \* every primary call so far was answered by a tool-call request
    execCount,          \* per tool name: times the tool's own execute was invoked
    lastCall            \* the last tool call the loop handled

VARIABLES
    \* ---- withUserLock and the callers of runAgentLoop ----
    userLocks,          \* Map<string, Promise<void>>: per user id the call of
                        \* withUserLock whose `current` is stored (0 = no entry)
    lockCalls,          \* the calls of withUserLock, in the order they were made:
                        \* userId, prev (0 = Promise.resolve()) and how far
                        \* `current` is: "chained" | "running" | "fnSettled" | "settled"
    directRuns,         \* per user id and caller: runAgentLoop calls in progress
                        \* that were made outside withUserLock
    directStarted       \* history: number of such calls made so far

VARIABLES
    \* ---- memoryManager.saveExchange and its callers ----
    sessionBuffer,      \* the user's session buffer: its messages, each named
                        \* by its number in the order of the pushes
    appended,           \* history: number of messages pushed to the buffer so far
    exchanges,          \* the runs of the loop that reached saveExchange, in
                        \* order: the response each of them returned
    writes,             \* per such run the background part of saveExchange:
                        \* the assistantMessage it was given and its number,
                        \* how far it is ("embed" | "upsert" | "facts" |
                        \* "done" | "rejected"), what it logged with log.warn
                        \* and whether it started extractAndSaveFacts
    unhandled,          \* a promise of the background work rejected with no handler
    compactPc,          \* compactSession: "idle" | "awaiting" (provider, embed,
                        \* saveMessage) | "returned" | "cleared" | "threw"
    transcript          \* the messages compactSession summarises

VARIABLES
    \* ---- memoryManager.getContext and buildMemoryContext ----
    ctxPc,              \* "start" | "context" (getContext resolved) | "built" | "rejected"
    ctxBuffer,          \* getBuffer(userId) at the call: the contents of its messages
    rawMatches,         \* what searchMessages resolves with, in its order
    memCtx,             \* the MemoryContext getContext resolved with
    factCache,          \* cache.get(userId) of the facts store
    searchFailed,       \* embed or searchMessages rejected in this getContext call
    memoryBlock         \* the semantic lines buildMemoryContext rendered, in order

VARIABLES
    \* ---- the schedule_task tool and the task scheduler ----
    taskCache,          \* the tasks, in creation order: id, cronExpression, paused
    activeJobs,         \* Map<string, ScheduledTask>: the ids that have a cron job
    jobs,               \* the cron jobs cron.schedule returned, in creation order:
                        \* taskId, started; activeJobs maps an id to its latest job
    taskIds,            \* history: number of task ids generated so far
    lastOp,             \* history: the last task operation, its id and how it ended
    scheduleInput,      \* input.schedule of the last schedule_task call
    cronExpr,           \* what parseSchedule returned for it
    toolResult,         \* how that call ended: "none" | "errRequired" |
                        \* "errParse" | "success" | "threw"
    scheduleCalls       \* history: number of schedule_task calls so far

VARIABLES
    \* ---- splitMessage ----
    splitPc,            \* "start" | "loop" (at the while condition) | "returned"
    splitText,          \* the text argument: a sequence of characters
    splitMax,           \* the maxLength argument
    remaining,          \* the local variable remaining
    chunks              \* the local variable chunks; the result when returned

VARIABLES
    \* ---- the whitelist middleware of createBot and the handlers behind it ----
    authPc,             \* "idle" | "middleware" | "handlers"
    update,             \* the update being processed: its sender and its kind
    updatesSeen,        \* history: number of updates received
    handled,            \* history: the senders for whose update a handler ran
    replied,            \* history: the senders the bot replied to
    agentRuns           \* history: the senders for whom an agent run was started

retryVars == <<rPc, rMax, rBase, rAttempt, rLastError, rThrown, rCalls, rSleeps, rAttemptErr>>
regVars == <<xPc, xName, xResult, xRejected, xTool, xTimer>>
loopVars == <<pc, iterations, totalToolCalls, toolCallCounts, lastToolSignature,
              repeatedToolCount, useTools, caught, callIdx, result, lastContent,
              saved>>
budgetVars == <<totalToolCalls, toolCallCounts, lastToolSignature, repeatedToolCount>>
histVars == <<llmCalls, fbCalls, fbRead, onlyToolCalls, execCount, lastCall>>

lockVars == <<userLocks, lockCalls, directRuns, directStarted>>

memVars == <<sessionBuffer, appended, exchanges, writes, unhandled, compactPc,
             transcript>>

ctxVars == <<ctxPc, ctxBuffer, rawMatches, memCtx, factCache, searchFailed,
             memoryBlock>>

schedVars == <<taskCache, activeJobs, jobs, taskIds, lastOp, scheduleInput, cronExpr,
              toolResult, scheduleCalls>>

splitVars == <<splitPc, splitText, splitMax, remaining, chunks>>

authVars == <<authPc, update, updatesSeen, handled, replied, agentRuns>>

vars == <<retryVars, regVars, loopVars, histVars, lockVars, memVars, ctxVars, schedVars,
          splitVars, authVars>>

\* What the actions of one part of the program leave alone.
outsideLoop == <<lockVars, memVars, ctxVars, schedVars, splitVars, authVars>>
outsideLock ==
    <<retryVars, regVars, loopVars, histVars, memVars, ctxVars, schedVars, splitVars,
      authVars>>
outsideSave ==
    <<retryVars, regVars, loopVars, histVars, lockVars, ctxVars, schedVars, splitVars,
      authVars>>
outsideContext ==
    <<retryVars, regVars, loopVars, histVars, lockVars, memVars, schedVars, splitVars,
      authVars>>
outsideSchedule ==
    <<retryVars, regVars, loopVars, histVars, lockVars, memVars, ctxVars, splitVars,
      authVars>>
outsideSplit ==
    <<retryVars, regVars, loopVars, histVars, lockVars, memVars, ctxVars, schedVars,
      authVars>>
outsideAuth ==
    <<retryVars, regVars, loopVars, histVars, lockVars, memVars, ctxVars, schedVars,
      splitVars>>

----------------------------------------------------------------------------
\* Bounds of the model
MaxRetriesBound == 3
MaxCallsPerResponse == 5
maxAgentIterations == 4
MaxLockCalls == 3
MaxDirectRuns == 2
\* Runs of the agent loop that reach saveExchange.
MaxExchanges == 2
\* config.memoryContextMessages and config.memorySemanticMatches.
memoryContextMessages == 1
memorySemanticMatches == 2
\* Messages in the session buffer / matches returned by the search, at most.
MaxCtxBuffer == 2
MaxRaw == 3
\* Calls of the schedule_task tool.
MaxScheduleCalls == 2
\* Tasks created, and cron jobs scheduled, in the task operations.
MaxTasks == 2
MaxJobs == 4
\* The longest text and the largest maxLength splitMessage is called with.
MaxTextLen == 5
MaxSplitLength == 3
\* Updates the bot receives.
MaxUpdates == 3

----------------------------------------------------------------------------
\* Errors a provider call can fail with.  Each is a record of what the code
\* inspects: the numeric status (0 = no status property), whether it is a
\* TypeError, and which marker its message contains.
Errors ==
    { [status |-> 429, typeErr |-> FALSE, msg |-> "rate"],
      [status |-> 503, typeErr |-> FALSE, msg |-> "down"],
      [status |-> 401, typeErr |-> FALSE, msg |-> "auth"],
      [status |-> 0,   typeErr |-> FALSE, msg |-> "ECONNRESET"],
      [status |-> 0,   typeErr |-> TRUE,  msg |-> "fetch failed"],
      [status |-> 0,   typeErr |-> FALSE, msg |-> "boom"] }

NoError == [status |-> 0, typeErr |-> FALSE, msg |-> "none"]

DEFAULT_maxRetries == 3
DEFAULT_baseDelayMs == 1000
DEFAULT_retryableStatuses == {429, 500, 502, 503, 504}

BaseDelays == {DEFAULT_baseDelayMs, 250}

getStatusCode(error) == error.status

\* Faulty variant of isRetryable: every failure is retried.
isRetryableAny(error, retryableStatuses) == TRUE

isRetryable(error, retryableStatuses) ==
    \/ error.typeErr
    \/ error.msg = "ECONNRESET"
    \/ error.msg = "ETIMEDOUT"
    \/ (getStatusCode(error) # 0 /\ getStatusCode(error) \in retryableStatuses)

\* Faulty variant of delayMs: a linear backoff.
delayMsLinear(baseDelayMs, attempt) == baseDelayMs * (attempt + 1)

delayMs(baseDelayMs, attempt) == baseDelayMs * (2 ^ attempt)

\* Faulty variant of exhausted: one attempt too many.
exhaustedLate(attempt, maxRetries) == attempt = maxRetries + 1

\* `if (attempt === maxRetries) break;`
exhausted(attempt, maxRetries) == attempt = maxRetries

\* withRetry(fn, {maxRetries, baseDelayMs}): entry, and the first fn() of the
\* for loop (attempt = 0 <= maxRetries).
withRetryBegin(maxRetries, baseDelayMs) ==
    /\ rPc' = "call"
    /\ rMax' = maxRetries
    /\ rBase' = baseDelayMs
    /\ rAttempt' = 0
    /\ rLastError' = NoError
    /\ rThrown' = NoError
    /\ rCalls' = 1
    /\ rSleeps' = <<>>
    /\ rAttemptErr' = NoError

\* `return await fn()` : fn resolved.
withRetryFnResolves ==
    /\ rPc = "call"
    /\ rPc' = "ret"
    /\ UNCHANGED <<rMax, rBase, rAttempt, rLastError, rThrown, rCalls, rSleeps, rAttemptErr>>

\* `lastError = error;`
assignLastError(lastError, error) == error

\* Whether the catch block throws for this error: `throw error` for one that is
\* not retryable, `break` and `throw lastError` at the last attempt.
withRetryThrows(error, attempt, maxRetries) ==
    \/ ~isRetryable(error, DEFAULT_retryableStatuses)
    \/ exhausted(attempt, maxRetries)

\* ... and what it throws then.
withRetryThrown(error, lastError) ==
    IF ~isRetryable(error, DEFAULT_retryableStatuses)
      THEN error
      ELSE assignLastError(lastError, error)

\* the catch block: fn rejected with error.
withRetryFnRejects(error) ==
    /\ rPc = "call"
    /\ rLastError' = assignLastError(rLastError, error)
    /\ rAttemptErr' = error
    /\ IF withRetryThrows(error, rAttempt, rMax)
         THEN /\ rPc' = "thrown"
              /\ rThrown' = withRetryThrown(error, rLastError)
              /\ UNCHANGED rSleeps
         ELSE /\ rPc' = "sleep"
              /\ rSleeps' = Append(rSleeps, delayMs(rBase, rAttempt))
              /\ UNCHANGED rThrown
    /\ UNCHANGED <<rMax, rBase, rAttempt, rCalls>>

\* sleep(delayMs) resolved: attempt++ and the next fn().
withRetrySleepDone ==
    /\ rPc = "sleep"
    /\ rAttempt' = rAttempt + 1
    /\ rPc' = "call"
    /\ rCalls' = rCalls + 1
    /\ UNCHANGED <<rMax, rBase, rLastError, rThrown, rSleeps, rAttemptErr>>

RetryIdle ==
    /\ rPc = "idle" /\ rMax = 0 /\ rBase = 0 /\ rAttempt = 0
    /\ rLastError = NoError /\ rThrown = NoError
    /\ rCalls = 0 /\ rSleeps = <<>> /\ rAttemptErr = NoError

RetryReset ==
    /\ rPc' = "idle" /\ rMax' = 0 /\ rBase' = 0 /\ rAttempt' = 0
    /\ rLastError' = NoError /\ rThrown' = NoError
    /\ rCalls' = 0 /\ rSleeps' = <<>> /\ rAttemptErr' = NoError

----------------------------------------------------------------------------
\* ToolRegistry.execute

\* The tool names of llm/claude.ts TOOL_NAMES are represented by two of them:
\* web_search, which index.ts registers, and translate, which is in TOOL_NAMES
\* but is not registered there, so that the registry does not know it.
TOOL_NAMES == {"web_search", "translate"}
Registered == {"web_search"}

\* What execute resolves with once the race is decided.  how is "resolved"
\* (tool.execute resolved), "rejected" (it rejected), "syncThrow" (it threw
\* before returning a promise) or "timeout" (the setTimeout callback rejected).
\* The try/catch turns every rejection into {error: `Tool "x" failed: <msg>`}.
executeOutcome(how) ==
    CASE how = "resolved"  -> [rejected |-> FALSE, value |-> "payload"]
      [] how = "rejected"  -> [rejected |-> FALSE, value |-> "errFailed"]
      [] how = "syncThrow" -> [rejected |-> FALSE, value |-> "errFailed"]
      [] how = "timeout"   -> [rejected |-> FALSE, value |-> "errTimeout"]

\* Faulty variant of afterRace: the late settlement replaces the value.
afterRaceOverwrites(delivered, late) == late

\* A promise settles once: a settlement of tool.execute that arrives after the
\* race was decided leaves the value execute returned as it is.
afterRace(delivered, late) == delivered

\* Faulty variant of timerDecides: execute awaits tool.execute alone.
timerIgnored(racing) == FALSE

\* The timer's reject decides Promise.race([tool.execute(input), <timer>]) if
\* the race is still open when it fires.
timerDecides(racing) == racing

\* execute(name, input) up to its first suspension.
registryExecute(name, syncThrow) ==
    /\ xName' = name
    /\ IF name \notin Registered
         THEN /\ xPc' = "settled"
              /\ xResult' = "errUnknown"
              /\ xRejected' = FALSE
              /\ xTool' = "none"
              /\ xTimer' = "none"
              /\ UNCHANGED execCount
         ELSE /\ execCount' = [execCount EXCEPT ![name] = @ + 1]
              /\ IF syncThrow
                   THEN /\ xPc' = "settled"
                        /\ xResult' = executeOutcome("syncThrow").value
                        /\ xRejected' = executeOutcome("syncThrow").rejected
                        /\ xTool' = "none"
                        /\ xTimer' = "none"
                   ELSE /\ xPc' = "race"
                        /\ xResult' = "none"
                        /\ xRejected' = FALSE
                        /\ xTool' = "pending"
                        /\ xTimer' = "armed"

\* The caller took the value: the invocation is over.  A tool promise that is
\* still pending and a timer that is still armed are left behind: nothing
\* awaits them any more, whatever they do later has no effect on the run.
registryRelease ==
    /\ xPc' = "idle"
    /\ xName' = "none"
    /\ xResult' = "none"
    /\ xRejected' = FALSE
    /\ xTool' = "none"
    /\ xTimer' = "none"

RegistryIdle ==
    /\ xPc = "idle" /\ xName = "none" /\ xResult = "none" /\ xRejected = FALSE
    /\ xTool = "none" /\ xTimer = "none"

\* tool.execute(input) settles (how = "resolved" or "rejected"), before or
\* after the timer has decided the race.
ToolSettles(how) ==
    /\ xTool = "pending"
    /\ xTool' = how
    /\ IF xPc = "race"
         THEN /\ xPc' = "settled"
              /\ xResult' = executeOutcome(how).value
              /\ xRejected' = executeOutcome(how).rejected
         ELSE /\ xResult' = afterRace(xResult, executeOutcome(how).value)
              /\ UNCHANGED <<xPc, xRejected>>
    /\ UNCHANGED <<xName, xTimer>>
    /\ UNCHANGED <<retryVars, loopVars, histVars>>
    /\ UNCHANGED outsideLoop

\* The setTimeout(..., TOOL_TIMEOUT_MS) callback runs.  The timer is never
\* cleared, so it also fires after tool.execute has decided the race.
TimerFires ==
    /\ xTimer = "armed"
    /\ xTimer' = "fired"
    /\ IF timerDecides(xPc = "race")
         THEN /\ xPc' = "settled"
              /\ xResult' = executeOutcome("timeout").value
              /\ xRejected' = executeOutcome("timeout").rejected
         ELSE UNCHANGED <<xPc, xResult, xRejected>>
    /\ UNCHANGED <<xName, xTool>>
    /\ UNCHANGED <<retryVars, loopVars, histVars>>
    /\ UNCHANGED outsideLoop

----------------------------------------------------------------------------
\* runAgentLoop

MAX_TOTAL_TOOL_CALLS == 15
MAX_CALLS_PER_TOOL == 5
PRIMARY_maxRetries == 3
FALLBACK_maxRetries == 2

\* The provider errors the run is checked with: a retryable one (status 429)
\* and two that are not (status 401, any other Error).
LoopErrors == {e \in Errors : e.msg \in {"rate", "auth", "boom"}}

NoResult == [response |-> "none", toolCalls |-> 0, iterations |-> 0]
AgentResult(response, toolCalls, its) ==
    [response |-> response, toolCalls |-> toolCalls, iterations |-> its]

\* toolCall.function.arguments as the provider sends it (quotes left out), and
\* JSON.stringify(fnArgs) after `JSON.parse(arguments || "{}")`, {} on a parse error.
RawArgs == {"", "{q:1}", "oops"}
parseArgs(raw) ==
    CASE raw = ""         -> "{}"
      [] raw = "{q:1}"    -> "{q:1}"
      [] OTHER            -> "{}"

\* `${fnName}:${JSON.stringify(fnArgs)}`
signature(fnName, fnArgs) == <<fnName, fnArgs>>
NoSignature == <<>>

\* A response text is a sequence of lines.  A line is prose, a line
\* "/<tool> <args>" (matched by TEXT_TOOL_CALL_RE and removed by the sanitizer),
\* or a line the sanitizer removes but TEXT_TOOL_CALL_RE does not match
\* ("<tool> <args>" without the slash, "/ <tool>").
ProseLine == [kind |-> "prose", name |-> "", args |-> ""]
SlashLine(n, a) == [kind |-> "slash", name |-> n, args |-> a]
BareLine == [kind |-> "bare", name |-> "web_search", args |-> "x"]
NoLine == [kind |-> "none", name |-> "", args |-> ""]
TextArgTexts == {"", "foo"}
SlashLines == {SlashLine(n, a) : n \in TOOL_NAMES, a \in TextArgTexts}
RawTexts ==
    {<<>>, <<ProseLine>>, <<BareLine>>}
      \cup {<<l>> : l \in SlashLines}
      \cup {<<ProseLine, l>> : l \in SlashLines}

\* rawResponse.match(TEXT_TOOL_CALL_RE): the first line that matches.
textToolMatch(raw) ==
    LET hits == {i \in 1..Len(raw) : raw[i].kind = "slash"}
    IN  IF hits = {} THEN NoLine
        ELSE raw[CHOOSE i \in hits : \A j \in hits : i <= j]

\* "Build reasonable args from the text", as JSON.stringify(fnArgs).
textArgs(fnName, fnArgsText) ==
    IF fnName = "web_search" /\ fnArgsText # ""
      THEN "{query:foo}"
      ELSE IF fnArgsText = "" THEN "{}"
      ELSE "{input:foo}"

\* sanitizeResponse: the tool lines are removed, the rest is trimmed.
sanitizeResponse(text) == SelectSeq(text, LAMBDA l : l.kind = "prose")

\* Faulty variant of buildUserErrorMessage: the status is not looked at.
buildUserErrorMessageGeneric(error) == "errGeneric"

buildUserErrorMessage(error) ==
    IF error.status = 429 THEN "errRateLimit"
    ELSE IF error.status = 503 \/ error.status = 502 THEN "errServiceDown"
    ELSE IF error.status = 401 THEN "errAuth"
    ELSE IF error.msg = "ECONNRESET" \/ error.msg = "ETIMEDOUT" THEN "errNetwork"
    ELSE IF error.msg = "timed out" THEN "errTimedOut"
    ELSE "errGeneric"

\* Faulty variant of getContext: embed / searchMessages run outside a try/catch.
getContextUnguarded(searchFails) == IF searchFails THEN "rejected" ELSE "resolved"

\* What memoryManager.getContext does when embed / searchMessages fails: the
\* try/catch around them logs and goes on with no semantic matches.
getContext(searchFails) == "resolved"

\* Faulty variant of loopCond: an off-by-one loop condition.
loopCondInclusive(its) == its <= maxAgentIterations

\* `while (iterations < config.maxAgentIterations)`
loopCond(its) == its < maxAgentIterations

\* `if (totalToolCalls >= MAX_TOTAL_TOOL_CALLS)`
globalBudgetExceeded(total) == total >= MAX_TOTAL_TOOL_CALLS

\* Faulty variant of toolVerdict: the per-tool cap is tested first.
toolVerdictPerToolFirst(repeated, toolCount) ==
    IF toolCount > MAX_CALLS_PER_TOOL THEN "perTool"
    ELSE IF repeated >= 1 THEN "repeat"
    ELSE "execute"

\* The if / else-if chain that decides a structured tool call.
toolVerdict(repeated, toolCount) ==
    IF repeated >= 1 THEN "repeat"
    ELSE IF toolCount > MAX_CALLS_PER_TOOL THEN "perTool"
    ELSE "execute"

\* Faulty variant of textToolAllowed: the interception checks the global budget only.
textToolAllowedGlobalOnly(total, toolCount) == total <= MAX_TOTAL_TOOL_CALLS

\* The condition under which a text-intercepted tool call is executed.
textToolAllowed(total, toolCount) ==
    total <= MAX_TOTAL_TOOL_CALLS /\ toolCount <= MAX_CALLS_PER_TOOL

\* `!finalResponse && iterations < config.maxAgentIterations - 1`
shouldReprompt(finalResponse, its) ==
    finalResponse = <<>> /\ its < maxAgentIterations - 1

\* `return {response, toolCalls: totalToolCalls, iterations, ...}`
Return(response, total, its) ==
    /\ pc' = "done"
    /\ result' = AgentResult(response, total, its)
    /\ RetryReset

\* `continue`: back to the while condition.
Continue ==
    /\ pc' = "loopHead"
    /\ RetryReset
    /\ UNCHANGED result

\* Faulty variant of shouldDisableTools: the test of useTools is left out.
shouldDisableToolsFirstOnly(tools, its) == its = 1

\* `if (useTools && iterations === 1)`
shouldDisableTools(tools, its) == tools /\ its = 1

\* `if (config.fallbackModel && iterations <= 2)`
shouldTryFallback(fallbackModel, its) == fallbackModel /\ its <= 2

\* The catch block of the loop body.  `error` is scoped to the block;
\* fallbackModel is config.fallbackModel being set.
CatchBlock(error, fallbackModel) ==
    IF shouldDisableTools(useTools, iterations)
      THEN /\ useTools' = FALSE
           /\ iterations' = iterations - 1
           /\ Continue
           /\ UNCHANGED <<caught, fbCalls, fbRead>>
      ELSE /\ caught' = error
           /\ fbRead' = IF fallbackModel THEN "set" ELSE "unset"
           /\ IF shouldTryFallback(fallbackModel, iterations)
                THEN /\ pc' = "fallback"
                     /\ withRetryBegin(FALLBACK_maxRetries, DEFAULT_baseDelayMs)
                     /\ fbCalls' = fbCalls + 1
                     /\ UNCHANGED <<iterations, result, useTools>>
                ELSE /\ Return(buildUserErrorMessage(error), totalToolCalls, iterations)
                     /\ UNCHANGED <<iterations, useTools, fbCalls>>

ToolError == [status |-> 0, typeErr |-> FALSE, msg |-> "timed out"]
NoCall == [sig |-> NoSignature, dup |-> FALSE, verdict |-> "none"]

\* memoryManager.getContext settles; the messages are built.
GetContextDone ==
    /\ pc = "ctx"
    /\ \E searchFails \in BOOLEAN :
         IF getContext(searchFails) = "resolved"
           THEN /\ pc' = "loopHead"
                /\ lastContent' = "userMessage"
           ELSE /\ pc' = "rejected"
                /\ UNCHANGED lastContent
    /\ UNCHANGED <<iterations, useTools, caught, callIdx, result, saved>>
    /\ UNCHANGED <<retryVars, regVars, budgetVars, histVars>>
    /\ UNCHANGED outsideLoop

\* The while condition: iterations++ and the withRetry call of the primary
\* model, or the return after the loop.
LoopHead ==
    /\ pc = "loopHead"
    /\ IF loopCond(iterations)
         THEN /\ iterations' = iterations + 1
              /\ pc' = "llm"
              /\ withRetryBegin(PRIMARY_maxRetries, DEFAULT_baseDelayMs)
              /\ llmCalls' = IF onlyToolCalls THEN llmCalls + 1 ELSE 0
              /\ lastContent' = "none"
              /\ UNCHANGED result
         ELSE /\ Return("maxIterations", totalToolCalls, iterations)
              /\ UNCHANGED <<iterations, llmCalls, lastContent>>
    /\ UNCHANGED <<useTools, caught, callIdx, saved>>
    /\ UNCHANGED <<fbCalls, fbRead, onlyToolCalls, execCount, lastCall>>
    /\ UNCHANGED <<regVars, budgetVars>>
    /\ UNCHANGED outsideLoop

\* A provider call made by withRetry for the loop (primary or fallback model)
\* fails and withRetry goes to sleep before the next attempt ...
LlmFnRejectsRetry ==
    /\ pc \in {"llm", "fallback"}
    /\ \E e \in LoopErrors :
         /\ ~withRetryThrows(e, rAttempt, rMax)
         /\ withRetryFnRejects(e)
    /\ onlyToolCalls' = FALSE
    /\ llmCalls' = 0
    /\ UNCHANGED <<regVars, loopVars, fbCalls, fbRead, execCount, lastCall>>
    /\ UNCHANGED outsideLoop

\* ... and the sleep is over: the next attempt.
LlmSleepDone ==
    /\ pc \in {"llm", "fallback"}
    /\ withRetrySleepDone
    /\ fbCalls' = IF pc = "fallback" THEN fbCalls + 1 ELSE fbCalls
    /\ UNCHANGED fbRead
    /\ UNCHANGED <<regVars, loopVars, llmCalls, onlyToolCalls, execCount, lastCall>>
    /\ UNCHANGED outsideLoop

\* withRetry returns the response of the primary model.
\* `if (!choice) return {response: "No response from LLM.", ...}`
OnResponseNoChoice ==
    /\ pc = "llm" /\ rPc = "call"
    /\ Return("noChoice", totalToolCalls, iterations)
    /\ onlyToolCalls' = FALSE
    /\ llmCalls' = 0
    /\ UNCHANGED <<iterations, useTools, caught, callIdx, lastContent, saved>>
    /\ UNCHANGED <<fbCalls, fbRead, execCount, lastCall>>
    /\ UNCHANGED <<regVars, budgetVars>>
    /\ UNCHANGED outsideLoop

\* finish_reason = "tool_calls" with a non-empty message.tool_calls (1 to
\* MaxCallsPerResponse of them, read one by one by the for loop): the assistant
\* message is pushed, then the global budget check.  A provider returns tool
\* calls only when the request carried the tool schemas.
OnResponseToolCalls ==
    /\ pc = "llm" /\ rPc = "call"
    /\ useTools
    /\ IF globalBudgetExceeded(totalToolCalls)
         THEN /\ lastContent' = "stopCallingTools"
              /\ Continue
              /\ UNCHANGED callIdx
         ELSE /\ lastContent' = "toolCalls"
              /\ pc' = "forLoop"
              /\ callIdx' = 0
              /\ RetryReset
              /\ UNCHANGED result
    /\ UNCHANGED <<iterations, useTools, caught, saved>>
    /\ UNCHANGED <<regVars, budgetVars, histVars>>
    /\ UNCHANGED outsideLoop

\* Faulty variant of nextRepeated: a different call leaves the counter as it is.
nextRepeatedSticky(sig, last, count) == IF sig = last THEN count + 1 ELSE count

\* `if (signature === lastToolSignature) repeatedToolCount++;
\*  else { lastToolSignature = signature; repeatedToolCount = 0; }`
nextRepeated(sig, last, count) == IF sig = last THEN count + 1 ELSE 0

\* Faulty variant of awaited: the loop goes on without the result.
awaitedAnyway(xpc) == TRUE

\* `result = await toolRegistry.execute(fnName, fnArgs)`: the loop goes on once
\* the promise has settled.
awaited(xpc) == xpc = "settled"

\* One pass of `for (const toolCall of message.tool_calls)`, up to the await of
\* toolRegistry.execute or, when the call is not executed, to the push of its
\* tool message.
ToolCallStep ==
    /\ pc = "forLoop" /\ callIdx < MaxCallsPerResponse
    /\ \E fnName \in TOOL_NAMES, raw \in RawArgs :
         LET sig == signature(fnName, parseArgs(raw))
             repeated == nextRepeated(sig, lastToolSignature, repeatedToolCount)
             toolCount == toolCallCounts[fnName] + 1
             verdict == toolVerdict(repeated, toolCount)
         IN  /\ totalToolCalls' = totalToolCalls + 1
             /\ lastToolSignature' = sig
             /\ repeatedToolCount' = repeated
             /\ toolCallCounts' = [toolCallCounts EXCEPT ![fnName] = toolCount]
             /\ lastCall' = [sig |-> sig, dup |-> (sig = lastCall.sig),
                             verdict |-> verdict]
             /\ IF verdict = "execute"
                  THEN /\ pc' = "tool"
                       /\ \E syncThrow \in BOOLEAN : registryExecute(fnName, syncThrow)
                       /\ UNCHANGED <<lastContent, callIdx>>
                  ELSE /\ lastContent' = IF verdict = "repeat" THEN "errRepeat"
                                         ELSE "errPerTool"
                       /\ callIdx' = callIdx + 1
                       /\ UNCHANGED <<pc, regVars, execCount>>
    /\ UNCHANGED <<retryVars, iterations, useTools, caught, result, saved>>
    /\ UNCHANGED <<llmCalls, fbCalls, fbRead, onlyToolCalls>>
    /\ UNCHANGED outsideLoop

\* `await toolRegistry.execute(...)` of the for loop returns: the tool message
\* is pushed.  (A rejection would be caught by the catch block of the loop.)
OnToolSettled ==
    /\ pc = "tool" /\ awaited(xPc)
    /\ registryRelease
    /\ IF xRejected
         THEN /\ \E fallbackModel \in BOOLEAN : CatchBlock(ToolError, fallbackModel)
              /\ UNCHANGED <<lastContent, callIdx>>
         ELSE /\ lastContent' = xResult
              /\ callIdx' = callIdx + 1
              /\ pc' = "forLoop"
              /\ UNCHANGED <<retryVars, iterations, result, useTools, caught, fbCalls, fbRead>>
    /\ UNCHANGED saved
    /\ UNCHANGED <<llmCalls, onlyToolCalls, execCount, lastCall>>
    /\ UNCHANGED budgetVars
    /\ UNCHANGED outsideLoop

\* message.tool_calls has no further element: `continue`.
ForLoopEnd ==
    /\ pc = "forLoop" /\ callIdx >= 1
    /\ Continue
    /\ callIdx' = 0
    /\ UNCHANGED <<iterations, useTools, caught, lastContent, saved>>
    /\ UNCHANGED <<regVars, budgetVars, histVars>>
    /\ UNCHANGED outsideLoop

\* Faulty variant of safeResponseOf: no placeholder for an empty text.
safeResponseOfNoPlaceholder(finalResponse) ==
    IF finalResponse # <<>> THEN "final" ELSE ""

\* `finalResponse || "I couldn't find a clear answer. ..."`
safeResponseOf(finalResponse) ==
    IF finalResponse # <<>> THEN "final" ELSE "couldNotFind"

\* Faulty variant of voidSaveExchange: the call is left out.
voidSaveExchangeSkipped(count) == count

\* `void memoryManager.saveExchange(userId, userMessage, ...)`: one more call.
voidSaveExchange(count) == count + 1

\* "Sanitize and check for empty response" to the end of the try block.
FinalText(raw, total) ==
    LET finalResponse == sanitizeResponse(raw)
    IN  IF shouldReprompt(finalResponse, iterations)
          THEN /\ lastContent' = "reprompt"
               /\ Continue
               /\ UNCHANGED saved
          ELSE /\ saved' = voidSaveExchange(saved)
               /\ Return(safeResponseOf(finalResponse), total, iterations)
               /\ UNCHANGED lastContent

\* withRetry returns a response without tool calls: the text-based tool call
\* interception, or the final text.
OnResponseText ==
    /\ pc = "llm" /\ rPc = "call"
    /\ onlyToolCalls' = FALSE
    /\ llmCalls' = 0
    /\ \E raw \in RawTexts :
         LET m == textToolMatch(raw)
             fnName == m.name
             sig == signature(fnName, textArgs(fnName, m.args))
             total == totalToolCalls + 1
         IN  IF raw # <<>> /\ m # NoLine
               THEN /\ totalToolCalls' = total
                    /\ toolCallCounts' =
                         [toolCallCounts EXCEPT ![fnName] = @ + 1]
                    /\ IF textToolAllowed(total, toolCallCounts[fnName] + 1)
                         THEN /\ pc' = "textTool"
                              /\ \E syncThrow \in BOOLEAN :
                                   registryExecute(fnName, syncThrow)
                              /\ lastCall' = [sig |-> sig, dup |-> (sig = lastCall.sig),
                                              verdict |-> "execute"]
                              /\ RetryReset
                              /\ UNCHANGED <<result, lastContent, saved>>
                         ELSE /\ FinalText(raw, total)
                              /\ lastCall' = [sig |-> sig, dup |-> (sig = lastCall.sig),
                                              verdict |-> "overBudget"]
                              /\ UNCHANGED <<regVars, execCount>>
               ELSE /\ FinalText(raw, totalToolCalls)
                    /\ UNCHANGED <<totalToolCalls, toolCallCounts, lastCall, regVars,
                                   execCount>>
    /\ UNCHANGED <<iterations, lastToolSignature, repeatedToolCount, useTools, caught,
                   callIdx>>
    /\ UNCHANGED <<fbCalls, fbRead>>
    /\ UNCHANGED outsideLoop

\* `await toolRegistry.execute(...)` of the interception returns: the text and
\* the tool result are pushed, `continue`.
OnTextToolSettled ==
    /\ pc = "textTool" /\ awaited(xPc)
    /\ registryRelease
    /\ IF xRejected
         THEN /\ \E fallbackModel \in BOOLEAN : CatchBlock(ToolError, fallbackModel)
              /\ UNCHANGED lastContent
         ELSE /\ lastContent' = xResult
              /\ Continue
              /\ UNCHANGED <<iterations, useTools, caught, fbCalls, fbRead>>
    /\ UNCHANGED <<callIdx, saved>>
    /\ UNCHANGED <<llmCalls, onlyToolCalls, execCount, lastCall>>
    /\ UNCHANGED budgetVars
    /\ UNCHANGED outsideLoop

\* withRetry of the primary model throws (an error that is not retryable, or
\* the last attempt failed): the catch block.  config.fallbackModel is read
\* there, at most once in a run.
OnLlmError ==
    /\ pc = "llm" /\ rPc = "call"
    /\ \E e \in LoopErrors, fallbackModel \in BOOLEAN :
         /\ withRetryThrows(e, rAttempt, rMax)
         /\ CatchBlock(withRetryThrown(e, rLastError), fallbackModel)
    /\ onlyToolCalls' = FALSE
    /\ llmCalls' = 0
    /\ UNCHANGED <<callIdx, lastContent, saved>>
    /\ UNCHANGED <<execCount, lastCall>>
    /\ UNCHANGED <<regVars, budgetVars>>
    /\ UNCHANGED outsideLoop

\* withRetry of the fallback model returns: fbMsg is its text, "" if none.
OnFallbackResponse ==
    /\ pc = "fallback" /\ rPc = "call"
    /\ \E fbMsg \in {"", "text"} :
         IF fbMsg # ""
           THEN /\ saved' = voidSaveExchange(saved)
                /\ Return("fallbackAnswer", totalToolCalls, iterations)
           ELSE /\ Return(buildUserErrorMessage(caught), totalToolCalls, iterations)
                /\ UNCHANGED saved
    /\ UNCHANGED <<iterations, useTools, caught, callIdx, lastContent>>
    /\ UNCHANGED <<regVars, budgetVars, histVars>>
    /\ UNCHANGED outsideLoop

\* withRetry of the fallback model throws: logged, then the error message.
OnFallbackError ==
    /\ pc = "fallback" /\ rPc = "call"
    /\ \E e \in LoopErrors : withRetryThrows(e, rAttempt, rMax)
    /\ Return(buildUserErrorMessage(caught), totalToolCalls, iterations)
    /\ UNCHANGED <<iterations, useTools, caught, callIdx, lastContent, saved>>
    /\ UNCHANGED <<regVars, budgetVars, histVars>>
    /\ UNCHANGED outsideLoop

ToolResolves == ToolSettles("resolved")
ToolRejects == ToolSettles("rejected")

----------------------------------------------------------------------------
\* withUserLock (src/src/bot.ts) and the callers of runAgentLoop

Users == {"u1", "u2"}
\* The callers that invoke runAgentLoop without withUserLock.
DirectCallers == {"scheduler", "webhook"}

\* A call of withUserLock: rejected tells how the promise fn returned settled.
LockCall(userId, prev, st) ==
    [userId |-> userId, prev |-> prev, st |-> st, rejected |-> FALSE]

\* `userLocks.get(userId) ?? Promise.resolve()`
lockPrev(locks, userId) == locks[userId]

\* Faulty variant of prevSettled: prev.then(fn), fn is not called after a
\* rejection.
prevFulfilled(prev, calls) ==
    IF prev = 0 THEN TRUE
    ELSE calls[prev].st = "settled" /\ ~calls[prev].rejected

\* prev.then(fn, fn): fn is called once prev has settled, however it settled.
prevSettled(prev, calls) == IF prev = 0 THEN TRUE ELSE calls[prev].st = "settled"

\* Faulty variant of isLatest: the finally callback never deletes the entry.
isLatestNever(stored, current) == FALSE

\* Faulty variant of isLatest: the finally callback deletes the entry whatever it holds.
isLatestAlways(stored, current) == TRUE

\* `if (userLocks.get(userId) === current)` of the finally callback.
isLatest(stored, current) == stored = current

\* Runs of the agent loop in progress for a user: the callbacks of
\* handleAgentMessage that are running inside withUserLock, and the direct calls.
lockedRunning(userId) ==
    {i \in 1..Len(lockCalls) :
        lockCalls[i].userId = userId /\ lockCalls[i].st = "running"}
directRunning(userId) ==
    directRuns[<<userId, "scheduler">>] + directRuns[<<userId, "webhook">>]
runsInProgress(userId) == Cardinality(lockedRunning(userId)) + directRunning(userId)

LockIdle ==
    /\ userLocks = [u \in Users |-> 0]
    /\ lockCalls = <<>>
    /\ directRuns = [k \in Users \X DirectCallers |-> 0]
    /\ directStarted = 0

\* handleAgentMessage calls withUserLock(userId, fn); the call runs up to
\* `await current`.
withUserLock ==
    /\ Len(lockCalls) < MaxLockCalls
    /\ \E userId \in Users :
         LET prev == lockPrev(userLocks, userId)
             current == Len(lockCalls) + 1
         IN  /\ lockCalls' = Append(lockCalls, LockCall(userId, prev, "chained"))
             /\ userLocks' = [userLocks EXCEPT ![userId] = current]
    /\ UNCHANGED <<directRuns, directStarted>>
    /\ UNCHANGED outsideLock

\* The reaction of prev.then(fn, fn): fn, which calls runAgentLoop, starts.
LockFnStarts ==
    /\ \E i \in 1..Len(lockCalls) :
         /\ lockCalls[i].st = "chained"
         /\ prevSettled(lockCalls[i].prev, lockCalls)
         /\ lockCalls' = [lockCalls EXCEPT ![i].st = "running"]
    /\ UNCHANGED <<userLocks, directRuns, directStarted>>
    /\ UNCHANGED outsideLock

\* The promise fn returned settles (fulfilled or rejected).
LockFnSettles ==
    /\ \E i \in 1..Len(lockCalls) :
         /\ lockCalls[i].st = "running"
         /\ \E rejects \in BOOLEAN :
              lockCalls' = [lockCalls EXCEPT ![i].st = "fnSettled",
                                             ![i].rejected = rejects]
    /\ UNCHANGED <<userLocks, directRuns, directStarted>>
    /\ UNCHANGED outsideLock

\* The finally callback runs, then `current` settles.
LockFinally ==
    /\ \E i \in 1..Len(lockCalls) :
         /\ lockCalls[i].st = "fnSettled"
         /\ lockCalls' = [lockCalls EXCEPT ![i].st = "settled"]
         /\ userLocks' =
              IF isLatest(userLocks[lockCalls[i].userId], i)
                THEN [userLocks EXCEPT ![lockCalls[i].userId] = 0]
                ELSE userLocks
    /\ UNCHANGED <<directRuns, directStarted>>
    /\ UNCHANGED outsideLock

\* A cron job of the task scheduler fires, or a webhook is triggered: the
\* callback calls runAgentLoop(..., userId) itself.
DirectRunStarts ==
    /\ directStarted < MaxDirectRuns
    /\ \E userId \in Users, caller \in DirectCallers :
         directRuns' = [directRuns EXCEPT ![<<userId, caller>>] = @ + 1]
    /\ directStarted' = directStarted + 1
    /\ UNCHANGED <<userLocks, lockCalls>>
    /\ UNCHANGED outsideLock

\* ... and that run returns.
DirectRunEnds ==
    /\ \E k \in Users \X DirectCallers :
         /\ directRuns[k] > 0
         /\ directRuns' = [directRuns EXCEPT ![k] = @ - 1]
    /\ UNCHANGED <<userLocks, lockCalls, directStarted>>
    /\ UNCHANGED outsideLock

----------------------------------------------------------------------------
\* memoryManager.saveExchange (memory manager) as runAgentLoop calls it

MAX_BUFFER_SIZE == 50

\* What runAgentLoop hands to saveExchange and returns: safeResponse
\* (finalResponse or the placeholder) or fbMsg.
SavedResponses == {"final", "couldNotFind", "fallbackAnswer"}

\* buf.length when the first run starts: what earlier exchanges of the session
\* left.
BufferStarts == {0, 2, MAX_BUFFER_SIZE - 2, MAX_BUFFER_SIZE}

\* The background function of a saveExchange call, at its first await.
Write(assistantMessage, seq) ==
    [response |-> assistantMessage, seq |-> seq, st |-> "embed", warned |-> {},
     facts |-> FALSE]

\* Faulty variant of trimBuffer: the newest entries are cut off, not the oldest.
trimBufferNewest(buf) ==
    IF Len(buf) > MAX_BUFFER_SIZE THEN SubSeq(buf, 1, MAX_BUFFER_SIZE) ELSE buf

\* `if (buf.length > MAX_BUFFER_SIZE) buf.splice(0, buf.length - MAX_BUFFER_SIZE)`
trimBuffer(buf) ==
    IF Len(buf) > MAX_BUFFER_SIZE
      THEN SubSeq(buf, Len(buf) - MAX_BUFFER_SIZE + 1, Len(buf))
      ELSE buf

\* `if (buf.length % 4 === 0)`
factsDue(len) == len % 4 = 0

\* Faulty variant of upsertOutcome: no catch around the embedding and the upsert.
upsertOutcomeUncaught(failed) == IF failed THEN "rejects" ELSE "continues"

\* try { await embed...; await saveMessage... } catch (err) { log.warn(...) }:
\* the async function goes on after the statement, however the awaits settled.
upsertOutcome(failed) == "continues"

\* try { ... } catch (err) { log.warn(...) } of extractAndSaveFacts.
factsOutcome(failed) == "resolves"

MemIdle ==
    /\ sessionBuffer = <<>>
    /\ appended = 0
    /\ exchanges = <<>>
    /\ writes = <<>>
    /\ unhandled = FALSE
    /\ compactPc = "idle"
    /\ transcript = <<>>

\* saveExchange up to the return of its promise: the two entries are pushed,
\* the buffer is trimmed, and the background function runs up to its first
\* await (the two embed calls are started).
saveExchange(assistantMessage) ==
    /\ sessionBuffer' = trimBuffer(sessionBuffer \o <<appended + 1, appended + 2>>)
    /\ appended' = appended + 2
    /\ writes' = Append(writes, Write(assistantMessage, appended + 2))

\* `void memoryManager.saveExchange(userId, userMessage, safeResponse);
\*  return {response: safeResponse, ...}` (and the same with fbMsg): no await
\* lies between the call and the return.
SaveAndReturn ==
    /\ pc = "idle"
    /\ Len(exchanges) < MaxExchanges
    /\ \E safeResponse \in SavedResponses :
         /\ saveExchange(safeResponse)
         /\ exchanges' = Append(exchanges, safeResponse)
    /\ UNCHANGED unhandled
    /\ UNCHANGED <<compactPc, transcript>>
    /\ UNCHANGED outsideSave

\* The background function after its try statement: the fact extraction is
\* started when buf.length is a multiple of 4.
afterUpsert(i, failed) ==
    IF upsertOutcome(failed) = "rejects"
      THEN /\ writes' = [writes EXCEPT ![i].st = "rejected"]
           /\ unhandled' = TRUE
      ELSE /\ writes' = [writes EXCEPT
                ![i].st = IF factsDue(Len(sessionBuffer)) THEN "facts" ELSE "done",
                ![i].facts = factsDue(Len(sessionBuffer)),
                ![i].warned = IF failed THEN @ \cup {"pinecone"} ELSE @]
           /\ UNCHANGED unhandled

\* `await Promise.all([embed(userMessage), embed(assistantMessage)])` settles.
EmbedSettles ==
    /\ pc = "idle"
    /\ \E i \in 1..Len(writes), failed \in BOOLEAN :
         /\ writes[i].st = "embed"
         /\ IF failed
              THEN afterUpsert(i, TRUE)
              ELSE /\ writes' = [writes EXCEPT ![i].st = "upsert"]
                   /\ UNCHANGED unhandled
    /\ UNCHANGED <<sessionBuffer, appended, exchanges>>
    /\ UNCHANGED <<compactPc, transcript>>
    /\ UNCHANGED outsideSave

\* `await Promise.all([saveMessage(...), saveMessage(...)])` settles.
UpsertSettles ==
    /\ pc = "idle"
    /\ \E i \in 1..Len(writes), failed \in BOOLEAN :
         /\ writes[i].st = "upsert"
         /\ afterUpsert(i, failed)
    /\ UNCHANGED <<sessionBuffer, appended, exchanges>>
    /\ UNCHANGED <<compactPc, transcript>>
    /\ UNCHANGED outsideSave

\* extractAndSaveFacts comes to its end: the provider call, the parse and the
\* upserts of the facts went through, or one of them threw.
FactsSettle ==
    /\ pc = "idle"
    /\ \E i \in 1..Len(writes), failed \in BOOLEAN :
         /\ writes[i].st = "facts"
         /\ IF factsOutcome(failed) = "rejects"
              THEN /\ writes' = [writes EXCEPT ![i].st = "rejected"]
                   /\ unhandled' = TRUE
              ELSE /\ writes' = [writes EXCEPT
                        ![i].st = "done",
                        ![i].warned = IF failed THEN @ \cup {"facts"} ELSE @]
                   /\ UNCHANGED unhandled
    /\ UNCHANGED <<sessionBuffer, appended, exchanges>>
    /\ UNCHANGED <<compactPc, transcript>>
    /\ UNCHANGED outsideSave

----------------------------------------------------------------------------
\* memoryManager.getContext (memory manager) and buildMemoryContext
\* (src/src/memory/context-builder.ts)

BufferContents == {"a", "b"}
MatchContents == {"a", "c"}
Timestamps == {1, 2}
\* Cosine similarity scores, in hundredths.
Scores == {75, 80}
SCORE_THRESHOLD == 75

Match(content, timestamp, score) ==
    [content |-> content, timestamp |-> timestamp, score |-> score]
Matches == [content : MatchContents, timestamp : Timestamps, score : Scores]

SeqsUpTo(S, n) == UNION {[1..k -> S] : k \in 0..n}

NoContext == [recentMessages |-> <<>>, semanticMatches |-> <<>>, facts |-> {}]

\* An entry of the facts cache: the keys of the user's facts, or no entry.
NoFacts == [has |-> FALSE, keys |-> {}]
FactCaches == {NoFacts, [has |-> TRUE, keys |-> {"name"}]}

\* `return cache.get(userId) ?? {}`
getFacts(entry) == IF entry.has THEN entry.keys ELSE {}

\* arr.slice(-n) for n >= 1: the last n elements.
sliceLast(arr, n) ==
    IF Len(arr) <= n THEN arr ELSE SubSeq(arr, Len(arr) - n + 1, Len(arr))

\* arr.slice(0, n): the first n elements.
sliceFirst(arr, n) == IF Len(arr) <= n THEN arr ELSE SubSeq(arr, 1, n)

\* `new Set(recentMessages.map((m) => m.content))`
recentContentsOf(recent) == {recent[i] : i \in 1..Len(recent)}

\* Faulty variant of keepMatch: the filter tests the score only.
keepMatchScoreOnly(m, recentContents) == m.score > SCORE_THRESHOLD

\* `!recentContents.has(m.content) && (m.score ?? 0) > 0.75`
keepMatch(m, recentContents) ==
    m.content \notin recentContents /\ m.score > SCORE_THRESHOLD

\* The body of getContext: the recent slice of the buffer, the matches
\* filtered and cut, or none when embed/searchMessages failed, and the facts.
getContextResult(buffer, raw, searchFails, entry) ==
    LET recent == sliceLast(buffer, memoryContextMessages)
        kept == SelectSeq(raw, LAMBDA m : keepMatch(m, recentContentsOf(recent)))
    IN  [recentMessages |-> recent,
         semanticMatches |-> IF searchFails THEN <<>>
                             ELSE sliceFirst(kept, memorySemanticMatches),
         facts |-> getFacts(entry)]

\* Array.prototype.sort with the comparator a.timestamp - b.timestamp: stable,
\* so m goes behind the elements that are not later than it.
RECURSIVE insertByTimestamp(_, _)
insertByTimestamp(m, sorted) ==
    IF sorted = <<>> THEN <<m>>
    ELSE IF sorted[Len(sorted)].timestamp <= m.timestamp THEN Append(sorted, m)
    ELSE Append(insertByTimestamp(m, SubSeq(sorted, 1, Len(sorted) - 1)),
                sorted[Len(sorted)])

RECURSIVE sortRec(_, _)
sortRec(arr, n) ==
    IF n = 0 THEN <<>> ELSE insertByTimestamp(arr[n], sortRec(arr, n - 1))

\* Faulty variant of sortByTimestamp: the matches are rendered in input order.
sortByTimestampSkipped(arr) == arr

\* `[...ctx.semanticMatches].sort((a, b) => a.timestamp - b.timestamp)`
sortByTimestamp(arr) == sortRec(arr, Len(arr))

\* The semantic section of buildMemoryContext: one line per match, in sorted
\* order; no section for no matches.
buildMemoryContext(ctx) ==
    IF Len(ctx.semanticMatches) > 0 THEN sortByTimestamp(ctx.semanticMatches)
    ELSE <<>>

ContextIdle ==
    /\ ctxPc = "start"
    /\ ctxBuffer = <<>>
    /\ rawMatches = <<>>
    /\ memCtx = NoContext
    /\ factCache = NoFacts
    /\ searchFailed = FALSE
    /\ memoryBlock = <<>>

\* `const memCtx = await memoryManager.getContext(userId, userMessage)`
GetContext ==
    /\ pc = "idle" /\ ctxPc = "start"
    /\ \E searchFails \in BOOLEAN :
         /\ searchFailed' = searchFails
         /\ IF getContext(searchFails) = "resolved"
              THEN /\ memCtx' = getContextResult(ctxBuffer, rawMatches, searchFails,
                                                 factCache)
                   /\ ctxPc' = "context"
              ELSE /\ ctxPc' = "rejected"
                   /\ UNCHANGED memCtx
    /\ UNCHANGED <<ctxBuffer, rawMatches, factCache, memoryBlock>>
    /\ UNCHANGED outsideContext

\* `const memoryBlock = buildMemoryContext(memCtx)`
BuildMemoryContext ==
    /\ pc = "idle" /\ ctxPc = "context"
    /\ memoryBlock' = buildMemoryContext(memCtx)
    /\ ctxPc' = "built"
    /\ UNCHANGED <<ctxBuffer, rawMatches, memCtx, factCache, searchFailed>>
    /\ UNCHANGED outsideContext

----------------------------------------------------------------------------
\* parseSchedule, createTask (src/src/scheduler/task-scheduler.ts) and the
\* schedule_task tool (src/src/tools/schedule-task.ts)
\*
\* A schedule text is a cron expression, given by its minute, hour and
\* day-of-week fields (day of month and month are "*"), or a phrase, given by
\* its words and, for "every day at ...", the digits and the suffix written.

\* A field of a cron expression: "*", "*/n", a number, or a fixed range or list.
Star == [k |-> "*", n |-> 0]
Step(n) == [k |-> "*/", n |-> n]
Num(n) == [k |-> "num", n |-> n]
Range15 == [k |-> "1-5", n |-> 0]
List06 == [k |-> "0,6", n |-> 0]

Cron(minute, hour, dow) ==
    [form |-> "cron", minute |-> minute, hour |-> hour, dow |-> dow]

NoMinute == 0 - 1
Phrase(words, hour, minute, ampm) ==
    [form |-> "text", words |-> words, hour |-> hour, minute |-> minute,
     ampm |-> ampm]
Fixed(words) == Phrase(words, 0, NoMinute, "")

Null == [form |-> "null"]

\* cron.validate of node-cron, on the fields: a number is in the range of its
\* field, a step is at least 1.
fieldValid(f, lo, hi) ==
    CASE f.k = "num" -> lo <= f.n /\ f.n <= hi
      [] f.k = "*/" -> 1 <= f.n /\ f.n <= hi
      [] OTHER -> TRUE

cronValidate(input) ==
    /\ input.form = "cron"
    /\ fieldValid(input.minute, 0, 59)
    /\ fieldValid(input.hour, 0, 23)
    /\ fieldValid(input.dow, 0, 7)

\* NL_PATTERNS without the "every day at" entry: the phrase a regex matches
\* and its cron expression.
NL_PATTERNS ==
    [w \in {"every minute", "every 5 min", "every 10 min", "every 15 min",
            "every 30 min", "every hour", "every 2 hours", "every morning",
            "every evening", "every night", "every monday", "every tuesday",
            "every wednesday", "every thursday", "every friday",
            "every saturday", "every sunday", "every weekday",
            "every weekend"} |->
       CASE w = "every minute" -> Cron(Star, Star, Star)
         [] w = "every 5 min" -> Cron(Step(5), Star, Star)
         [] w = "every 10 min" -> Cron(Step(10), Star, Star)
         [] w = "every 15 min" -> Cron(Step(15), Star, Star)
         [] w = "every 30 min" -> Cron(Step(30), Star, Star)
         [] w = "every hour" -> Cron(Num(0), Star, Star)
         [] w = "every 2 hours" -> Cron(Num(0), Step(2), Star)
         [] w = "every morning" -> Cron(Num(0), Num(8), Star)
         [] w = "every evening" -> Cron(Num(0), Num(18), Star)
         [] w = "every night" -> Cron(Num(0), Num(21), Star)
         [] w = "every monday" -> Cron(Num(0), Num(9), Num(1))
         [] w = "every tuesday" -> Cron(Num(0), Num(9), Num(2))
         [] w = "every wednesday" -> Cron(Num(0), Num(9), Num(3))
         [] w = "every thursday" -> Cron(Num(0), Num(9), Num(4))
         [] w = "every friday" -> Cron(Num(0), Num(9), Num(5))
         [] w = "every saturday" -> Cron(Num(0), Num(9), Num(6))
         [] w = "every sunday" -> Cron(Num(0), Num(9), Num(0))
         [] w = "every weekday" -> Cron(Num(0), Num(9), Range15)
         [] OTHER -> Cron(Num(0), Num(10), List06)]

\* Faulty variant of hour24: the "12am is midnight" rule is missing.
hour24NoMidnight(hour, ampm) == IF ampm = "pm" /\ hour < 12 THEN hour + 12 ELSE hour

\* `if (ampm === "pm" && hour < 12) hour += 12;
\*  if (ampm === "am" && hour === 12) hour = 0;`
hour24(hour, ampm) ==
    LET h == IF ampm = "pm" /\ hour < 12 THEN hour + 12 ELSE hour
    IN  IF ampm = "am" /\ h = 12 THEN 0 ELSE h

\* The DYNAMIC_DAILY branch: `${minute} ${hour} * * *`.
dynamicDaily(input) ==
    Cron(Num(IF input.minute # NoMinute THEN input.minute ELSE 0),
         Num(hour24(input.hour, input.ampm)), Star)

parseSchedule(input) ==
    IF cronValidate(input) THEN input
    ELSE IF input.form = "text" /\ input.words \in DOMAIN NL_PATTERNS
      THEN NL_PATTERNS[input.words]
    ELSE IF input.form = "text" /\ input.words = "every day at"
      THEN dynamicDaily(input)
    ELSE Null

\* The schedule texts given to the tool.
HourTexts == {0, 6, 11, 12, 13, 23, 24}
MinuteTexts == {NoMinute, 0, 30, 60}
DailyInputs ==
    {Phrase("every day at", h, m, a) :
        h \in HourTexts, m \in MinuteTexts, a \in {"", "am", "pm"}}
CronInputs ==
    {Cron(Num(0), Num(9), Range15), Cron(Step(15), Star, Star),
     Cron(Num(0), Num(24), Star), Cron(Num(60), Num(9), Star)}
ScheduleInputs ==
    DailyInputs \cup CronInputs
      \cup {Fixed(w) : w \in DOMAIN NL_PATTERNS \cup {"banana", ""}}

Task(id, cronExpression) ==
    [id |-> id, cronExpression |-> cronExpression, paused |-> FALSE]

Job(taskId) == [taskId |-> taskId, started |-> TRUE]
Op(op, id, outcome) == [op |-> op, id |-> id, outcome |-> outcome]
NoOp == Op("none", 0, "none")

\* The expressions createTask is called with: one node-cron accepts, and
\* "0 24 * * *", which parseSchedule returns for "every day at 24".
TaskCrons == {Cron(Num(0), Num(9), Star), Cron(Num(0), Num(24), Star)}

\* `taskCache.find((t) => t.id === taskId)`: its index, 0 if there is none.
findTask(cache, taskId) ==
    LET hits == {i \in 1..Len(cache) : cache[i].id = taskId}
    IN  IF hits = {} THEN 0 ELSE CHOOSE i \in hits : TRUE

\* `taskCache.splice(idx, 1)`
splice(cache, idx) ==
    [i \in 1..(Len(cache) - 1) |-> IF i < idx THEN cache[i] ELSE cache[i + 1]]

\* `activeJobs.get(taskId)` for an id the map has: the job set last for it.
jobOf(js, taskId) ==
    CHOOSE k \in 1..Len(js) :
        /\ js[k].taskId = taskId
        /\ \A l \in 1..Len(js) : js[l].taskId = taskId => l <= k

\* Faulty variant of stopExisting: the job the map has is left running.
stopExistingSkipped(js, active, taskId) == js

\* `const job = activeJobs.get(taskId); if (job) job.stop();`
stopExisting(js, active, taskId) ==
    IF taskId \in active
      THEN [js EXCEPT ![jobOf(js, taskId)].started = FALSE]
      ELSE js

\* startJob: the existing job is stopped; nothing more for a paused task;
\* else cron.schedule, job.start() and activeJobs.set.  What cron.schedule of
\* node-cron does with an expression that is not valid is the library's: it
\* throws, or it returns a job.
startJob(task, js, active, scheduleThrows) ==
    LET stopped == stopExisting(js, active, task.id)
    IN  IF task.paused
          THEN [jobs |-> stopped, activeJobs |-> active, threw |-> FALSE]
        ELSE IF ~cronValidate(task.cronExpression) /\ scheduleThrows
          THEN [jobs |-> stopped, activeJobs |-> active, threw |-> TRUE]
        ELSE [jobs |-> Append(stopped, Job(task.id)),
              activeJobs |-> active \cup {task.id}, threw |-> FALSE]

\* The started jobs of a task id, in the map or not.
startedJobs(taskId) ==
    {k \in 1..Len(jobs) : jobs[k].taskId = taskId /\ jobs[k].started}

ScheduleIdle ==
    /\ taskCache = <<>>
    /\ activeJobs = {}
    /\ jobs = <<>>
    /\ taskIds = 0
    /\ lastOp = NoOp
    /\ scheduleInput = Null
    /\ cronExpr = Null
    /\ toolResult = "none"
    /\ scheduleCalls = 0

\* createTask: the task is pushed to taskCache, then startJob.
createTask(cronExpression, scheduleThrows) ==
    LET id == taskIds + 1
        task == Task(id, cronExpression)
        started == startJob(task, jobs, activeJobs, scheduleThrows)
    IN  /\ taskIds' = id
        /\ taskCache' = Append(taskCache, task)
        /\ jobs' = started.jobs
        /\ activeJobs' = started.activeJobs
        /\ toolResult' = IF started.threw THEN "threw" ELSE "success"
        /\ lastOp' = Op("create", id, IF started.threw THEN "threw" ELSE "returned")

\* createTask called with an expression.
CreateTask ==
    /\ pc = "idle"
    /\ taskIds < MaxTasks
    /\ \E cronExpression \in TaskCrons, scheduleThrows \in BOOLEAN :
         createTask(cronExpression, scheduleThrows)
    /\ UNCHANGED <<scheduleInput, cronExpr, scheduleCalls>>
    /\ UNCHANGED outsideSchedule

\* The ids manage_tasks is called with: those of tasks and one of no task.
TaskIdInputs == 1..(MaxTasks + 1)

\* pauseTask(taskId)
PauseTask ==
    /\ pc = "idle"
    /\ \E taskId \in TaskIdInputs :
         LET idx == findTask(taskCache, taskId)
         IN  IF idx = 0
               THEN /\ lastOp' = Op("pause", taskId, "false")
                    /\ UNCHANGED <<taskCache, jobs>>
               ELSE /\ taskCache' = [taskCache EXCEPT ![idx].paused = TRUE]
                    /\ jobs' = stopExisting(jobs, activeJobs, taskId)
                    /\ lastOp' = Op("pause", taskId, "true")
    /\ UNCHANGED <<activeJobs, taskIds, scheduleInput, cronExpr, toolResult, scheduleCalls>>
    /\ UNCHANGED outsideSchedule

\* resumeTask(taskId)
ResumeTask ==
    /\ pc = "idle"
    /\ Len(jobs) < MaxJobs
    /\ \E taskId \in TaskIdInputs, scheduleThrows \in BOOLEAN :
         LET idx == findTask(taskCache, taskId)
             resumed == [taskCache EXCEPT ![idx].paused = FALSE]
             started == startJob(resumed[idx], jobs, activeJobs, scheduleThrows)
         IN  IF idx = 0
               THEN /\ lastOp' = Op("resume", taskId, "false")
                    /\ UNCHANGED <<taskCache, jobs, activeJobs>>
               ELSE /\ taskCache' = resumed
                    /\ jobs' = started.jobs
                    /\ activeJobs' = started.activeJobs
                    /\ lastOp' = Op("resume", taskId,
                                    IF started.threw THEN "threw" ELSE "true")
    /\ UNCHANGED <<taskIds, scheduleInput, cronExpr, toolResult, scheduleCalls>>
    /\ UNCHANGED outsideSchedule

\* deleteTask(taskId)
DeleteTask ==
    /\ pc = "idle"
    /\ \E taskId \in TaskIdInputs :
         LET idx == findTask(taskCache, taskId)
         IN  IF idx = 0
               THEN /\ lastOp' = Op("delete", taskId, "false")
                    /\ UNCHANGED <<taskCache, jobs, activeJobs>>
               ELSE /\ taskCache' = splice(taskCache, idx)
                    /\ jobs' = stopExisting(jobs, activeJobs, taskId)
                    /\ activeJobs' = activeJobs \ {taskId}
                    /\ lastOp' = Op("delete", taskId, "true")
    /\ UNCHANGED <<taskIds, scheduleInput, cronExpr, toolResult, scheduleCalls>>
    /\ UNCHANGED outsideSchedule

\* Faulty variant of rejectedSchedule: a null cronExpr is passed on to createTask.
rejectedScheduleNever(parsed) == FALSE

\* `if (!cronExpr) return {error: "Could not parse schedule: ..."}`
rejectedSchedule(parsed) == parsed = Null

\* scheduleTask.execute
ScheduleTaskExecute ==
    /\ pc = "idle"
    /\ scheduleCalls < MaxScheduleCalls
    /\ scheduleCalls' = scheduleCalls + 1
    /\ \E input \in ScheduleInputs, complete \in BOOLEAN, scheduleThrows \in BOOLEAN :
         /\ scheduleInput' = input
         /\ IF ~complete \/ input = Fixed("")
              THEN /\ toolResult' = "errRequired"
                   /\ cronExpr' = Null
                   /\ UNCHANGED <<taskCache, activeJobs, jobs, taskIds, lastOp>>
              ELSE /\ cronExpr' = parseSchedule(input)
                   /\ IF rejectedSchedule(parseSchedule(input))
                        THEN /\ toolResult' = "errParse"
                             /\ UNCHANGED <<taskCache, activeJobs, jobs, taskIds,
                                            lastOp>>
                        ELSE createTask(parseSchedule(input), scheduleThrows)
    /\ UNCHANGED outsideSchedule

----------------------------------------------------------------------------
\* memoryManager.compactSession and clearSession (memory manager)

\* `sessionBuffers.set(userId, [])`
clearSession(buf) == <<>>

\* compactSession up to its first await: `const buf = this.getBuffer(userId);
\* if (buf.length === 0) return;`, then the transcript is built from buf.
CompactStarts ==
    /\ pc = "idle" /\ compactPc = "idle"
    /\ IF Len(sessionBuffer) = 0
         THEN /\ compactPc' = "returned"
              /\ UNCHANGED transcript
         ELSE /\ compactPc' = "awaiting"
              /\ transcript' = sessionBuffer
    /\ UNCHANGED <<sessionBuffer, appended, exchanges, writes, unhandled>>
    /\ UNCHANGED outsideSave

\* The provider call, embed and saveMessage of compactSession settle: the
\* catch re-throws a failure; else `this.clearSession(userId)`.
CompactSettles ==
    /\ pc = "idle" /\ compactPc = "awaiting"
    /\ \E failed \in BOOLEAN :
         IF failed
           THEN /\ compactPc' = "threw"
                /\ UNCHANGED sessionBuffer
           ELSE /\ compactPc' = "cleared"
                /\ sessionBuffer' = clearSession(sessionBuffer)
    /\ UNCHANGED <<appended, exchanges, writes, unhandled, transcript>>
    /\ UNCHANGED outsideSave

----------------------------------------------------------------------------
\* splitMessage (src/src/bot/typing.ts)
\*
\* A text is a sequence of characters: a letter, a space or a newline.

Chars == {"x", " ", "\n"}

\* str.lastIndexOf(ch, fromIndex): the largest index (from 0) not above
\* fromIndex that holds ch, -1 if there is none.
lastIndexOf(str, ch, fromIndex) ==
    LET hits == {i \in 0..(Len(str) - 1) : i <= fromIndex /\ str[i + 1] = ch}
    IN  IF hits = {} THEN 0 - 1
        ELSE CHOOSE i \in hits : \A j \in hits : j <= i

\* str.substring(start, end) for start <= end: both are clamped to 0..length.
clamp(n, len) == IF n < 0 THEN 0 ELSE IF n > len THEN len ELSE n
substring(str, start, end) ==
    SubSeq(str, clamp(start, Len(str)) + 1, clamp(end, Len(str)))

\* str.trimStart()
RECURSIVE trimStart(_)
trimStart(str) ==
    IF str # <<>> /\ str[1] \in {" ", "\n"} THEN trimStart(Tail(str)) ELSE str

\* Faulty variant of splitIndex: no hard split when there is no good boundary.
splitIndexNoHardSplit(rem, maxLength) ==
    LET nl == lastIndexOf(rem, "\n", maxLength)
    IN  IF 2 * nl < maxLength THEN lastIndexOf(rem, " ", maxLength) ELSE nl

\* splitAt: the last newline up to maxLength; the last space if that is before
\* maxLength / 2; maxLength if that is too.
splitIndex(rem, maxLength) ==
    LET nl == lastIndexOf(rem, "\n", maxLength)
        sp == IF 2 * nl < maxLength THEN lastIndexOf(rem, " ", maxLength) ELSE nl
    IN  IF 2 * sp < maxLength THEN maxLength ELSE sp

SplitIdle ==
    /\ splitPc = "start"
    /\ splitText = <<>>
    /\ splitMax = 1
    /\ remaining = <<>>
    /\ chunks = <<>>

\* splitMessage up to the while loop.
SplitMessage ==
    /\ pc = "idle" /\ splitPc = "start"
    /\ IF Len(splitText) <= splitMax
         THEN /\ chunks' = <<splitText>>
              /\ splitPc' = "returned"
              /\ UNCHANGED remaining
         ELSE /\ chunks' = <<>>
              /\ remaining' = splitText
              /\ splitPc' = "loop"
    /\ UNCHANGED <<splitText, splitMax>>
    /\ UNCHANGED outsideSplit

\* The while condition and one pass of the loop body.
SplitLoop ==
    /\ pc = "idle" /\ splitPc = "loop"
    /\ IF Len(remaining) = 0
         THEN /\ splitPc' = "returned"
              /\ UNCHANGED <<remaining, chunks>>
         ELSE IF Len(remaining) <= splitMax
           THEN /\ chunks' = Append(chunks, remaining)
                /\ splitPc' = "returned"
                /\ UNCHANGED remaining
           ELSE LET splitAt == splitIndex(remaining, splitMax)
                IN  /\ chunks' = Append(chunks, substring(remaining, 0, splitAt))
                    /\ remaining' =
                         trimStart(substring(remaining, splitAt, Len(remaining)))
                    /\ UNCHANGED splitPc
    /\ UNCHANGED <<splitText, splitMax>>
    /\ UNCHANGED outsideSplit

----------------------------------------------------------------------------
\* The whitelist middleware of createBot (src/src/bot.ts) and the handlers
\* registered behind it

\* ctx.from of an update: absent, or a user with an id.
From(present, id) == [present |-> present, id |-> id]
Senders == {From(FALSE, 0), From(TRUE, 0), From(TRUE, 111), From(TRUE, 222),
            From(TRUE, 333)}
\* config.allowedUserIds
allowedUserIds == {111, 333}
\* What an update is: a command, a text, photo or document message (these
\* three go to handleAgentMessage), a callback query, or one no handler takes.
UpdateKinds == {"command", "text", "photo", "document", "callback", "other"}
Update(from, kind) == [from |-> from, kind |-> kind]

\* Faulty variant of authorized: any update that has a sender passes.
authorizedAnySender(from) == from.present

\* `!userId || !config.allowedUserIds.includes(userId)` negated: ctx.from is
\* there, its id is not 0, and the list has it.
authorized(from) == from.present /\ from.id # 0 /\ from.id \in allowedUserIds

AuthIdle ==
    /\ authPc = "idle"
    /\ update = Update(From(FALSE, 0), "other")
    /\ updatesSeen = 0
    /\ handled = {}
    /\ replied = {}
    /\ agentRuns = {}

\* An update arrives: the first middleware of the bot is called with it.
UpdateArrives ==
    /\ pc = "idle" /\ authPc = "idle"
    /\ updatesSeen < MaxUpdates
    /\ updatesSeen' = updatesSeen + 1
    /\ \E from \in Senders, kind \in UpdateKinds : update' = Update(from, kind)
    /\ authPc' = "middleware"
    /\ UNCHANGED <<handled, replied, agentRuns>>
    /\ UNCHANGED outsideAuth

\* The whitelist middleware: `return` (silent ignore), or `await next()`.
AuthMiddleware ==
    /\ pc = "idle" /\ authPc = "middleware"
    /\ authPc' = IF authorized(update.from) THEN "handlers" ELSE "idle"
    /\ UNCHANGED <<update, updatesSeen, handled, replied, agentRuns>>
    /\ UNCHANGED outsideAuth

\* The handlers behind the middleware: a command or a callback query is
\* answered, a message starts an agent run and is answered with its result.
HandlerRuns ==
    /\ pc = "idle" /\ authPc = "handlers"
    /\ authPc' = "idle"
    /\ IF update.kind = "other"
         THEN UNCHANGED <<handled, replied, agentRuns>>
         ELSE /\ handled' = handled \cup {update.from}
              /\ replied' = replied \cup {update.from}
              /\ agentRuns' =
                   IF update.kind \in {"text", "photo", "document"}
                     THEN agentRuns \cup {update.from}
                     ELSE agentRuns
    /\ UNCHANGED <<update, updatesSeen>>
    /\ UNCHANGED outsideAuth

----------------------------------------------------------------------------
\* Initial states and specifications

LoopFresh ==
    /\ iterations = 0
    /\ totalToolCalls = 0
    /\ toolCallCounts = [n \in TOOL_NAMES |-> 0]
    /\ lastToolSignature = NoSignature
    /\ repeatedToolCount = 0
    /\ useTools = TRUE
    /\ caught = NoError
    /\ callIdx = 0
    /\ result = NoResult
    /\ lastContent = "none"
    /\ saved = 0
    /\ llmCalls = 0
    /\ fbCalls = 0
    /\ fbRead = "unread"
    /\ onlyToolCalls = TRUE
    /\ execCount = [n \in TOOL_NAMES |-> 0]
    /\ lastCall = NoCall

\* One run of runAgentLoop, called with a registry that has tools.
Init ==
    /\ RetryIdle
    /\ RegistryIdle
    /\ LoopFresh
    /\ LockIdle
    /\ MemIdle
    /\ ContextIdle
    /\ ScheduleIdle /\ SplitIdle /\ AuthIdle
    /\ pc = "ctx"

Next ==
    \/ GetContextDone
    \/ LoopHead
    \/ LlmFnRejectsRetry
    \/ LlmSleepDone
    \/ OnResponseNoChoice
    \/ OnResponseToolCalls
    \/ ToolCallStep
    \/ OnToolSettled
    \/ ForLoopEnd
    \/ OnResponseText
    \/ OnTextToolSettled
    \/ OnLlmError
    \/ OnFallbackResponse
    \/ OnFallbackError
    \/ ToolResolves
    \/ ToolRejects
    \/ TimerFires

Spec == Init /\ [][Next]_vars

----------------------------------------------------------------------------
\* Specification of withRetry alone: one call with any maxRetries/baseDelayMs
\* and any sequence of outcomes of fn.
RetryInit ==
    /\ RetryIdle /\ RegistryIdle /\ LoopFresh /\ LockIdle /\ MemIdle
    /\ ContextIdle /\ ScheduleIdle /\ SplitIdle /\ AuthIdle
    /\ pc = "idle"

RetryStart ==
    /\ pc = "idle" /\ rPc = "idle"
    /\ \E m \in 0..MaxRetriesBound, b \in BaseDelays : withRetryBegin(m, b)
    /\ UNCHANGED <<regVars, loopVars, histVars>>
    /\ UNCHANGED outsideLoop

RetryResolve ==
    /\ pc = "idle"
    /\ withRetryFnResolves
    /\ UNCHANGED <<regVars, loopVars, histVars>>
    /\ UNCHANGED outsideLoop

RetryReject ==
    /\ pc = "idle"
    /\ \E e \in Errors : withRetryFnRejects(e)
    /\ UNCHANGED <<regVars, loopVars, histVars>>
    /\ UNCHANGED outsideLoop

RetrySleep ==
    /\ pc = "idle"
    /\ withRetrySleepDone
    /\ UNCHANGED <<regVars, loopVars, histVars>>
    /\ UNCHANGED outsideLoop

RetryNext == RetryStart \/ RetryResolve \/ RetryReject \/ RetrySleep

SpecRetry == RetryInit /\ [][RetryNext]_vars

----------------------------------------------------------------------------
\* Specification of the per-user lock: handleAgentMessage goes through
\* withUserLock, the scheduler and the webhook handler call runAgentLoop directly.
LockInit ==
    /\ RetryIdle /\ RegistryIdle /\ LoopFresh /\ LockIdle /\ MemIdle
    /\ ContextIdle /\ ScheduleIdle /\ SplitIdle /\ AuthIdle
    /\ pc = "idle"

LockNext ==
    \/ withUserLock
    \/ LockFnStarts
    \/ LockFnSettles
    \/ LockFinally
    \/ DirectRunStarts
    \/ DirectRunEnds

SpecLock == LockInit /\ [][LockNext]_vars

\* The same with the scheduling of the event loop: a reaction of a settled
\* promise (fn after prev, the finally callback after fn) is a queued job and
\* is run; and every callback that started settles.
SpecLockFair ==
    /\ SpecLock
    /\ WF_vars(LockFnStarts)
    /\ WF_vars(LockFnSettles)
    /\ WF_vars(LockFinally)

----------------------------------------------------------------------------
\* Specification of the memory write: runs of the agent loop that end with
\* saveExchange, one after the other for one user, and the background work
\* they leave behind.  A background step may come at any time, or never.
SaveInit ==
    /\ RetryIdle /\ RegistryIdle /\ LoopFresh /\ LockIdle /\ ContextIdle
    /\ ScheduleIdle /\ SplitIdle /\ AuthIdle
    /\ \E n \in BufferStarts :
         /\ sessionBuffer = [i \in 1..n |-> i]
         /\ appended = n
    /\ exchanges = <<>>
    /\ writes = <<>>
    /\ unhandled = FALSE
    /\ compactPc = "idle"
    /\ transcript = <<>>
    /\ pc = "idle"

SaveNext == SaveAndReturn \/ EmbedSettles \/ UpsertSettles \/ FactsSettle

SpecSave == SaveInit /\ [][SaveNext]_vars

\* The same with one /compact of the user: runs started by the scheduler or a
\* webhook for the user end, and save, while compactSession is awaiting.
CompactNext == SaveNext \/ CompactStarts \/ CompactSettles

SpecCompact == SaveInit /\ [][CompactNext]_vars

----------------------------------------------------------------------------
\* Specification of the memory context: one call of getContext, for any
\* session buffer and any answer of the search, and the block built from it.
ContextInit ==
    /\ RetryIdle /\ RegistryIdle /\ LoopFresh /\ LockIdle /\ MemIdle
    /\ ScheduleIdle /\ SplitIdle /\ AuthIdle
    /\ ctxPc = "start"
    /\ ctxBuffer \in SeqsUpTo(BufferContents, MaxCtxBuffer)
    /\ rawMatches \in SeqsUpTo(Matches, MaxRaw)
    /\ memCtx = NoContext
    /\ factCache \in FactCaches
    /\ searchFailed = FALSE
    /\ memoryBlock = <<>>
    /\ pc = "idle"

ContextNext == GetContext \/ BuildMemoryContext

SpecContext == ContextInit /\ [][ContextNext]_vars

----------------------------------------------------------------------------
\* Specification of the scheduler: calls of the schedule_task tool with any
\* schedule text.
ScheduleInit ==
    /\ RetryIdle /\ RegistryIdle /\ LoopFresh /\ LockIdle /\ MemIdle
    /\ ContextIdle /\ ScheduleIdle /\ SplitIdle /\ AuthIdle
    /\ pc = "idle"

ScheduleNext == ScheduleTaskExecute

SpecSchedule == ScheduleInit /\ [][ScheduleNext]_vars

----------------------------------------------------------------------------
\* Specification of the task operations: any sequence of createTask,
\* pauseTask, resumeTask and deleteTask, from an empty task list.
TasksNext ==
    \/ CreateTask
    \/ PauseTask
    \/ ResumeTask
    \/ DeleteTask

SpecTasks == ScheduleInit /\ [][TasksNext]_vars

----------------------------------------------------------------------------
\* Specification of splitMessage: one call, for any text and any maxLength.
SplitInit ==
    /\ RetryIdle /\ RegistryIdle /\ LoopFresh /\ LockIdle /\ MemIdle
    /\ ContextIdle /\ ScheduleIdle /\ AuthIdle
    /\ splitPc = "start"
    /\ splitText \in SeqsUpTo(Chars, MaxTextLen)
    /\ splitMax \in 1..MaxSplitLength
    /\ remaining = <<>>
    /\ chunks = <<>>
    /\ pc = "idle"

SplitNext == SplitMessage \/ SplitLoop

SpecSplit == SplitInit /\ [][SplitNext]_vars

----------------------------------------------------------------------------
\* Specification of the whitelist: updates of any sender and kind, one at a
\* time.
AuthInit ==
    /\ RetryIdle /\ RegistryIdle /\ LoopFresh /\ LockIdle /\ MemIdle
    /\ ContextIdle /\ ScheduleIdle /\ SplitIdle /\ AuthIdle
    /\ pc = "idle"

AuthNext == UpdateArrives \/ AuthMiddleware \/ HandlerRuns

SpecAuth == AuthInit /\ [][AuthNext]_vars

----------------------------------------------------------------------------
\* Properties

\* The responses runAgentLoop returns: each is a message for the user.
UserFacingResponses ==
    {"maxIterations", "noChoice", "final", "couldNotFind", "fallbackAnswer",
     "errRateLimit", "errServiceDown", "errAuth", "errNetwork", "errTimedOut",
     "errGeneric"}

\* What ToolRegistry.execute resolves with: the tool's payload or an {error}.
ExecuteResults == {"payload", "errUnknown", "errFailed", "errTimeout"}

\* C1: with maxAgentIterations = N and a provider that answers every call with
\* a tool-call request, the run makes exactly N iterations and N provider calls,
\* never an (N+1)-th, and returns the "maximum iterations" response.
C1_ExactlyMaxIterations ==
    /\ llmCalls <= maxAgentIterations
    /\ (pc = "done" /\ onlyToolCalls) =>
         /\ iterations = maxAgentIterations
         /\ llmCalls = maxAgentIterations
         /\ result = AgentResult("maxIterations", totalToolCalls, maxAgentIterations)

C1_Witness ==
    /\ pc = "done"
    /\ onlyToolCalls
    /\ llmCalls = maxAgentIterations
    /\ result.response = "maxIterations"

\* C2: the toolCalls count of every result runAgentLoop returns is at most
\* MAX_TOTAL_TOOL_CALLS.
C2_ToolCallsWithinCap ==
    pc = "done" => result.toolCalls <= MAX_TOTAL_TOOL_CALLS

\* C3: within one run the execute of any single tool is invoked at most
\* MAX_CALLS_PER_TOOL times, structured and text-intercepted calls together.
C3_PerToolCap ==
    \A n \in TOOL_NAMES : execCount[n] <= MAX_CALLS_PER_TOOL

\* The tool was executed MAX_CALLS_PER_TOOL times and a further, text-
\* intercepted request for it, the global budget permitting, was not executed.
C3_Witness ==
    /\ execCount["web_search"] = MAX_CALLS_PER_TOOL
    /\ lastCall.verdict = "overBudget"
    /\ lastCall.sig[1] = "web_search"
    /\ totalToolCalls <= MAX_TOTAL_TOOL_CALLS

\* C4: a tool call with the same name and the same arguments as the tool call
\* directly before it never reaches the tool's execute, however it was requested.
C4_RepeatNeverExecuted ==
    lastCall.dup => lastCall.verdict # "execute"

\* C5: no two runs of the agent loop for the same user id are in progress at
\* the same time, whichever caller started them.
C5_OneRunPerUser ==
    \A u \in Users : runsInProgress(u) <= 1

\* C6: withUserLock runs the callbacks of one user id one at a time and in
\* submission order: a callback that has started has every earlier-submitted
\* callback of that user settled.
C6_LockSerializes ==
    \A i \in 1..Len(lockCalls) :
        lockCalls[i].st # "chained" =>
            \A j \in 1..(i - 1) :
                lockCalls[j].userId = lockCalls[i].userId =>
                    lockCalls[j].st \in {"fnSettled", "settled"}

\* A callback runs after an earlier one of the same user settled, while a
\* later one of that user is still queued behind it.
C6_Witness ==
    \E i, j, k \in 1..Len(lockCalls) :
        /\ j < i /\ i < k
        /\ lockCalls[j].userId = lockCalls[i].userId
        /\ lockCalls[k].userId = lockCalls[i].userId
        /\ lockCalls[j].st = "settled"
        /\ lockCalls[i].st = "running"
        /\ lockCalls[k].st = "chained"

\* The timer fired while the tool's execute had not settled.
HungToolTimedOut == xTimer = "fired" /\ xTool = "pending"

\* C7: when a registered tool's execute does not settle, ToolRegistry.execute
\* resolves at the timeout with the timeout {error}, and runAgentLoop can go on
\* at once; going on, it appends that result and moves to the next tool call
\* or iteration.
C7_TimeoutUnblocksLoop ==
    /\ [](HungToolTimedOut =>
            /\ xPc = "settled" /\ xResult = "errTimeout" /\ ~xRejected
            /\ (pc = "tool" => ENABLED OnToolSettled)
            /\ (pc = "textTool" => ENABLED OnTextToolSettled))
    /\ [][(HungToolTimedOut /\ pc' # pc) =>
            /\ lastContent' = "errTimeout"
            /\ pc' = IF pc = "tool" THEN "forLoop" ELSE "loopHead"]_vars

\* The loop appended the timeout result of a tool call and is at the next one.
C7_Witness ==
    /\ pc = "forLoop"
    /\ lastContent = "errTimeout"
    /\ callIdx >= 1

\* C8: ToolRegistry.execute never rejects; it resolves once, with the tool's
\* payload or an {error}, and a settlement of the tool after the timeout does
\* not change what was delivered.
C8_ExecuteResolvesOnce ==
    /\ [](/\ ~xRejected
          /\ xPc = "settled" => xResult \in ExecuteResults)
    /\ [][(xPc = "settled" /\ xPc' = "settled") => xResult' = xResult]_vars

\* The tool settled after the timeout had been delivered.
C8_Witness ==
    /\ xPc = "settled"
    /\ xTimer = "fired"
    /\ xTool \in {"resolved", "rejected"}
    /\ xResult = "errTimeout"

\* C9: runAgentLoop never rejects; whatever failed, it resolves with an
\* AgentResult whose response is a message for the user.
C9_NeverRejects ==
    /\ pc # "rejected"
    /\ pc = "done" => result.response \in UserFacingResponses

\* The primary model exhausted its retries, the fallback model too, and the
\* run returned the rate-limit message.
C9_Witness ==
    /\ pc = "done"
    /\ fbCalls = FALLBACK_maxRetries + 1
    /\ caught.status = 429
    /\ result.response = "errRateLimit"

\* C10: withRetry with maxRetries = N calls fn at most N+1 times, sleeps
\* baseDelayMs * 2^k after the k-th failed attempt (k = 0..N-1), does not sleep
\* after the last attempt, and on exhaustion throws the last attempt's error.
C10_RetryBackoff ==
    /\ rCalls <= rMax + 1
    /\ Len(rSleeps) <= rMax
    /\ \A k \in 1..Len(rSleeps) : rSleeps[k] = rBase * (2 ^ (k - 1))
    /\ Len(rSleeps) = IF rPc = "sleep" THEN rCalls ELSE IF rPc = "idle" THEN 0 ELSE rCalls - 1
    /\ rPc = "thrown" => rThrown = rAttemptErr

\* maxRetries = MaxRetriesBound, every attempt failed with a retryable error.
C10_Witness ==
    /\ rPc = "thrown"
    /\ rMax = MaxRetriesBound
    /\ rCalls = rMax + 1
    /\ Len(rSleeps) = rMax
    /\ isRetryable(rThrown, DEFAULT_retryableStatuses)

\* C11: withRetry rethrows a failure that is not classified retryable at once:
\* fn is not called again and no delay is taken for it, also after earlier
\* attempts of the same call failed with retryable errors.
C11_NonRetryableRethrown ==
    /\ rPc = "sleep" => rAttemptErr.status \in DEFAULT_retryableStatuses
                          \/ rAttemptErr.typeErr
                          \/ rAttemptErr.msg = "ECONNRESET"
    /\ (rAttemptErr.status = 401 \/ rAttemptErr.msg = "boom") =>
         /\ rPc = "thrown"
         /\ rThrown = rAttemptErr
         /\ Len(rSleeps) = rCalls - 1

\* A 401 was rethrown after two attempts that failed with retryable errors.
C11_Witness ==
    /\ rPc = "thrown"
    /\ rThrown.status = 401
    /\ rCalls = 3
    /\ Len(rSleeps) = 2
    /\ rMax = MaxRetriesBound

\* The messages buildUserErrorMessage produces for a provider error.
ProviderErrorResponses ==
    {"errRateLimit", "errServiceDown", "errAuth", "errNetwork", "errTimedOut",
     "errGeneric"}

\* C12: a run whose primary-model calls fail with status 429 until the
\* retries are exhausted, and to which no fallback model gives an answer,
\* returns a normal result with the rate-limit message.
C12_RateLimitMessage ==
    (pc = "done" /\ caught.status = 429 /\ result.response # "fallbackAnswer") =>
        result = AgentResult("errRateLimit", totalToolCalls, iterations)

\* Every call failed with 429, with tools and without, no fallback model is
\* configured.
C12_Witness ==
    /\ pc = "done"
    /\ caught.status = 429
    /\ fbRead = "unset"
    /\ ~useTools
    /\ result = AgentResult("errRateLimit", 0, 1)

C14_FallbackTried ==
    (pc = "done" /\ fbRead = "set" /\ result.response \in ProviderErrorResponses) =>
        fbCalls >= 1

\* The assistant message with tool calls pushed last has no tool message: the
\* "stop calling tools" user message was pushed directly after it.
toolCallsUnanswered == lastContent = "stopCallingTools"

\* C15: when the loop goes back to the while condition, towards the next
\* provider call, every tool call of the assistant message it appended has its
\* tool message, also when a budget check tripped.
C15_ToolCallsAnswered ==
    pc = "loopHead" => ~toolCallsUnanswered

\* The structured tool call handled last was refused, and it tripped the
\* identical-repeat check / the per-tool cap.
lastTripsRepeat ==
    lastCall.verdict \in {"repeat", "perTool"} /\ repeatedToolCount >= 1
lastTripsPerTool ==
    /\ lastCall.verdict \in {"repeat", "perTool"}
    /\ toolCallCounts[lastCall.sig[1]] > MAX_CALLS_PER_TOOL

C17_ToolLessRetryOnce ==
    [][/\ (pc = "llm" /\ useTools /\ iterations = 1) =>
            /\ pc' # "fallback"
            /\ pc' = "done" => result'.response \notin ProviderErrorResponses
            /\ (pc' = "loopHead" /\ lastContent' = "none") =>
                   /\ ~useTools'
                   /\ iterations' = 0
                   /\ totalToolCalls' = totalToolCalls
       /\ iterations' < iterations =>
            /\ pc = "llm" /\ iterations = 1 /\ iterations' = 0
            /\ useTools /\ ~useTools'
            /\ pc' = "loopHead"
       /\ ~useTools => ~useTools'
      ]_vars

\* The first iteration is being repeated without tools: its provider call is
\* in flight.
C17_Witness ==
    /\ ~useTools
    /\ pc = "llm"
    /\ rPc = "call"
    /\ iterations = 1

\* C18: a run returns the "I couldn't find a clear answer" placeholder, given
\* for a final text that is empty after sanitization, only when no iteration
\* remains; while iterations < maxAgentIterations it re-prompts instead.
C18_RepromptWhileIterationsRemain ==
    (pc = "done" /\ result.response = "couldNotFind") =>
        ~loopCond(result.iterations)

\* The calls of withUserLock made for a user.
callsOf(userId) == {i \in 1..Len(lockCalls) : lockCalls[i].userId = userId}

\* C19: once every withUserLock call of a user has settled (no callback of
\* the user is running or queued and the finally callbacks have run), userLocks
\* holds no entry for the user; an entry that is there is the promise of the
\* user's latest call, and that call has not settled.
C19_NoLockEntryLeft ==
    \A u \in Users :
        /\ (\A i \in callsOf(u) : lockCalls[i].st = "settled") => userLocks[u] = 0
        /\ userLocks[u] # 0 =>
             /\ userLocks[u] \in callsOf(u)
             /\ \A i \in callsOf(u) : i <= userLocks[u]
             /\ lockCalls[userLocks[u]].st # "settled"

\* A user's chain of two or more calls, the later queued behind the earlier,
\* has drained and the user's entry is gone.
C19_Witness ==
    \E u \in Users :
        /\ \E i, j \in callsOf(u) : lockCalls[j].prev = i
        /\ \A i \in callsOf(u) : lockCalls[i].st = "settled"
        /\ userLocks[u] = 0

\* C20: every run that called saveExchange has returned, with the response it
\* handed to saveExchange, in whatever state the background write is (awaiting
\* the embedding or the upsert, failed, extracting facts); no failure of the
\* background work is left unhandled, and no background step changes what a
\* run returned.
C20_ReturnsWithoutWaiting ==
    /\ [](/\ Len(exchanges) = Len(writes)
          /\ \A i \in 1..Len(writes) : exchanges[i] = writes[i].response
          /\ ~unhandled)
    /\ [][\A i \in 1..Len(exchanges) : exchanges'[i] = exchanges[i]]_vars

\* Two runs have returned; the write of the first still awaits the embedding,
\* that of the second failed and was logged.
C20_Witness ==
    /\ Len(exchanges) = 2
    /\ writes[1].st = "embed"
    /\ "pinecone" \in writes[2].warned
    /\ writes[2].st \in {"facts", "done"}

\* C21: after any sequence of saveExchange calls the session buffer holds at
\* most MAX_BUFFER_SIZE messages, and they are the messages pushed last, in the
\* order they were pushed.
C21_BufferKeepsNewest ==
    /\ Len(sessionBuffer) <= MAX_BUFFER_SIZE
    /\ Len(sessionBuffer) = IF appended > MAX_BUFFER_SIZE THEN MAX_BUFFER_SIZE
                            ELSE appended
    /\ \A i \in 1..Len(sessionBuffer) :
         sessionBuffer[i] = appended - Len(sessionBuffer) + i

\* Two exchanges were saved to a full buffer: its four oldest messages are gone.
C21_Witness ==
    /\ appended = MAX_BUFFER_SIZE + 4
    /\ Len(sessionBuffer) = MAX_BUFFER_SIZE
    /\ sessionBuffer[1] = 5
    /\ sessionBuffer[MAX_BUFFER_SIZE] = appended

\* C22: the background function of every saveExchange call that made the
\* number of messages pushed to the buffer a multiple of 4 starts a fact
\* extraction pass once it is past its try statement, also when the buffer is
\* at its cap.
C22_FactsEveryFourMessages ==
    \A i \in 1..Len(writes) :
        (writes[i].st \in {"facts", "done"} /\ writes[i].seq % 4 = 0) =>
            writes[i].facts

\* C23: no semantic match getContext returns has the content of a message in
\* the recent messages the same call returns.
C23_NoRecentInSemantic ==
    ctxPc # "start" =>
        \A i \in 1..Len(memCtx.semanticMatches) :
            \A j \in 1..Len(memCtx.recentMessages) :
                memCtx.semanticMatches[i].content # memCtx.recentMessages[j]

\* The search returned a match above the threshold whose content is in the
\* recent messages, and getContext returned other matches without it.
C23_Witness ==
    /\ ctxPc = "context"
    /\ memCtx.semanticMatches # <<>>
    /\ \E i \in 1..Len(rawMatches) :
         /\ rawMatches[i].score > SCORE_THRESHOLD
         /\ rawMatches[i].content \in recentContentsOf(memCtx.recentMessages)

\* The matches of a sequence, as a bag.
bagOf(arr) == [m \in {arr[i] : i \in 1..Len(arr)} |->
                 Cardinality({i \in 1..Len(arr) : arr[i] = m})]

\* C24: the block lists exactly the semantic matches of the context, in
\* non-decreasing timestamp order, whatever their input order.
C24_OldestFirst ==
    ctxPc = "built" =>
        /\ bagOf(memoryBlock) = bagOf(memCtx.semanticMatches)
        /\ \A i, j \in 1..Len(memoryBlock) :
             i < j => memoryBlock[i].timestamp <= memoryBlock[j].timestamp

\* The matches came newest first and were rendered oldest first.
C24_Witness ==
    /\ ctxPc = "built"
    /\ Len(memCtx.semanticMatches) = 2
    /\ memCtx.semanticMatches[1].timestamp > memCtx.semanticMatches[2].timestamp
    /\ memoryBlock[1] = memCtx.semanticMatches[2]
    /\ memoryBlock[2] = memCtx.semanticMatches[1]

\* C25: whenever parseSchedule returned an expression for the schedule text of
\* a call, parseSchedule of that expression is the expression again.
C25_ParseIdempotent ==
    cronExpr # Null => parseSchedule(cronExpr) = cronExpr

\* The last call was given "every day at H", "every day at H:MM", with or
\* without am/pm, and all the required fields.
dailyParsed ==
    /\ scheduleInput \in DailyInputs
    /\ toolResult # "errRequired"
    /\ toolResult # "none"

\* C26: for "every day at H[:MM][am|pm]" parseSchedule returns "MM H24 * * *":
\* the minutes written or 0, and for the hour 12am gives 0, 12pm gives 12, pm
\* adds 12 to an hour below 12, every other hour stays as written.
C26_DailyNormalized ==
    dailyParsed =>
        /\ cronExpr.form = "cron"
        /\ cronExpr.dow = Star
        /\ cronExpr.minute.k = "num"
        /\ cronExpr.minute.n = IF scheduleInput.minute = NoMinute THEN 0
                               ELSE scheduleInput.minute
        /\ cronExpr.hour.k = "num"
        /\ cronExpr.hour.n =
             CASE scheduleInput.hour = 12 /\ scheduleInput.ampm = "am" -> 0
               [] scheduleInput.hour = 12 /\ scheduleInput.ampm = "pm" -> 12
               [] scheduleInput.hour < 12 /\ scheduleInput.ampm = "pm" ->
                    scheduleInput.hour + 12
               [] OTHER -> scheduleInput.hour

\* "every day at 12:30am" was parsed to "30 0 * * *".
C26_Witness ==
    /\ dailyParsed
    /\ scheduleInput = Phrase("every day at", 12, 30, "am")
    /\ cronExpr = Cron(Num(30), Num(0), Star)

\* C27: a schedule_task call whose schedule text parseSchedule maps to null
\* ends with the parse error, and it leaves the task list and the active jobs
\* as they were.
C27_NullScheduleRejected ==
    [][(scheduleCalls' = scheduleCalls + 1 /\ parseSchedule(scheduleInput') = Null) =>
          /\ toolResult' \in {"errParse", "errRequired"}
          /\ taskCache' = taskCache
          /\ activeJobs' = activeJobs]_vars

\* A task exists, and a later call with a text that has no parse ended with
\* the parse error.
C27_Witness ==
    /\ toolResult = "errParse"
    /\ scheduleInput = Fixed("banana")
    /\ Len(taskCache) = 1
    /\ activeJobs = {1}

\* C28 as stated: no runaway-protection counter ever decreases in a run,
\* the repeat counter included.
C28_CountersNeverDecrease ==
    [][/\ totalToolCalls' >= totalToolCalls
       /\ \A n \in TOOL_NAMES : toolCallCounts'[n] >= toolCallCounts[n]
       /\ repeatedToolCount' >= repeatedToolCount]_vars

\* C28: the total counter and the per-tool counters never decrease; the repeat
\* counter goes up by one with a call identical to the one before it and back
\* to 0 with a call that differs from it, and changes with nothing else.
C28_CountersMonotoneRepeatResets ==
    [][/\ totalToolCalls' >= totalToolCalls
       /\ \A n \in TOOL_NAMES : toolCallCounts'[n] >= toolCallCounts[n]
       /\ \/ /\ repeatedToolCount' = repeatedToolCount
             /\ lastToolSignature' = lastToolSignature
          \/ /\ repeatedToolCount' = repeatedToolCount + 1
             /\ lastToolSignature' = lastToolSignature
          \/ /\ repeatedToolCount' = 0
             /\ lastToolSignature' # lastToolSignature]_vars

\* The call before this one was refused as a repeat; this one differs, the
\* repeat counter is back at 0 and the call is being executed.
C28_Witness ==
    /\ pc = "tool"
    /\ lastContent = "errRepeat"
    /\ repeatedToolCount = 0
    /\ lastCall.verdict = "execute"

C30_IterationsWithinMax ==
    /\ iterations <= maxAgentIterations
    /\ pc = "done" => result.iterations <= maxAgentIterations

\* A run that repeated its first iteration without tools, was re-prompted and
\* ran into a provider error returns at the maximum.
C30_Witness ==
    /\ pc = "done"
    /\ ~useTools
    /\ result.iterations = maxAgentIterations
    /\ result.response \in ProviderErrorResponses

\* C33: within one run the re-prompt for an empty response is issued at most
\* once.  A run that still sends the tool schemas and has executed no tool call
\* has continued only by re-prompts, so its re-prompt is that of iteration 1.
C33_RepromptAtMostOnce ==
    (lastContent = "reprompt" /\ useTools /\ totalToolCalls = 0) => iterations <= 1

\* C36: a run calls saveExchange exactly once when it ends with a final answer
\* of the primary or the fallback model, and never when it ends with a
\* provider-error message, "No response from LLM." or the maximum-iterations
\* result; no call is made before the run ends.
C36_SavedOnceOnAnswerOnly ==
    /\ pc # "done" => saved = 0
    /\ pc = "done" =>
         saved = IF result.response \in {"final", "couldNotFind", "fallbackAnswer"}
                   THEN 1 ELSE 0

\* The fallback model answered after the primary model had failed: one call.
C36_Witness ==
    /\ pc = "done"
    /\ result.response = "fallbackAnswer"
    /\ caught.status = 429
    /\ saved = 1

\* C39: every result runAgentLoop returns, on every path, has a non-empty
\* response string.
C39_ResponseNonEmpty ==
    pc = "done" => result.response \notin {"", "none"}

\* The text of the last-but-one iteration was empty after sanitization and the
\* run, which had executed a tool, returned the placeholder.
C39_Witness ==
    /\ pc = "done"
    /\ result.response = "couldNotFind"
    /\ result.toolCalls > 0
    /\ saved = 1

\* C34: when embed or the similarity query fails during getContext, getContext
\* still resolves, with the recent messages, the facts and an empty semantic
\* list, and runAgentLoop goes on to build its messages for the provider call.
C34_SearchFailureTolerated ==
    searchFailed =>
        /\ ctxPc \in {"context", "built"}
        /\ memCtx = [recentMessages |-> sliceLast(ctxBuffer, memoryContextMessages),
                     semanticMatches |-> <<>>,
                     facts |-> getFacts(factCache)]
        /\ ctxPc = "context" => ENABLED BuildMemoryContext
        /\ ctxPc = "built" => memoryBlock = <<>>

\* The search failed for a user with a matching stored message, a longer
\* buffer and a fact: the context holds the last message and the fact only.
C34_Witness ==
    /\ searchFailed
    /\ ctxPc = "built"
    /\ Len(ctxBuffer) > memoryContextMessages
    /\ \E i \in 1..Len(rawMatches) : keepMatch(rawMatches[i], {})
    /\ memCtx.recentMessages # <<>>
    /\ memCtx.facts # {}

\* C40: a callback that rejects inside withUserLock does not block the user's
\* queue: every queued callback eventually starts, each earlier callback of
\* that user settling, whether it is fulfilled or rejected.
C40_QueuedCallbackStarts ==
    \A i \in 1..MaxLockCalls :
        (Len(lockCalls) >= i /\ lockCalls[i].st = "chained")
            ~> (Len(lockCalls) >= i /\ lockCalls[i].st # "chained")

\* A callback is running whose predecessor in the user's queue rejected.
C40_Witness ==
    \E i \in 1..Len(lockCalls) :
        /\ lockCalls[i].st = "running"
        /\ lockCalls[i].prev # 0
        /\ lockCalls[lockCalls[i].prev].rejected

\* C35: after pauseTask(id) returned true the task is in the list with paused
\* set and has no started job; after resumeTask(id) returned true it has
\* exactly one started job; after deleteTask(id) returned true the id is in
\* neither the list nor activeJobs; and no task id ever has more than one
\* started job.
C35_JobFollowsTaskState ==
    /\ (lastOp.op = "pause" /\ lastOp.outcome = "true") =>
          /\ findTask(taskCache, lastOp.id) # 0
          /\ taskCache[findTask(taskCache, lastOp.id)].paused
          /\ startedJobs(lastOp.id) = {}
    /\ (lastOp.op = "resume" /\ lastOp.outcome = "true") =>
          /\ findTask(taskCache, lastOp.id) # 0
          /\ ~taskCache[findTask(taskCache, lastOp.id)].paused
          /\ Cardinality(startedJobs(lastOp.id)) = 1
          /\ lastOp.id \in activeJobs
    /\ (lastOp.op = "delete" /\ lastOp.outcome = "true") =>
          /\ findTask(taskCache, lastOp.id) = 0
          /\ lastOp.id \notin activeJobs
          /\ startedJobs(lastOp.id) = {}
    /\ \A id \in 1..MaxTasks : Cardinality(startedJobs(id)) <= 1

\* A task that was running was resumed: its first job is stopped, its second
\* one started.
C35_Witness ==
    /\ lastOp = Op("resume", 1, "true")
    /\ Len(jobs) = 2
    /\ jobs[1] = [taskId |-> 1, started |-> FALSE]
    /\ jobs[2] = [taskId |-> 1, started |-> TRUE]

\* C37: after any sequence of createTask, pauseTask, resumeTask and deleteTask,
\* every task in the cache that is not paused has a started job in activeJobs,
\* also when starting the job fails for the task's cron expression.
C37_UnpausedTaskHasJob ==
    \A i \in 1..Len(taskCache) :
        ~taskCache[i].paused =>
            /\ taskCache[i].id \in activeJobs
            /\ jobs[jobOf(jobs, taskCache[i].id)].started

\* C38: compactSession removes only messages that were part of the transcript
\* it summarised: the messages of an exchange saved while it was awaiting are
\* in the buffer after it cleared the session.
C38_CompactKeepsLaterExchanges ==
    compactPc = "cleared" =>
        \A m \in (transcript[Len(transcript)] + 1)..appended :
            \E j \in 1..Len(sessionBuffer) : sessionBuffer[j] = m

\* C31: splitMessage terminates, within as many passes of its loop as the text
\* has characters, and every chunk it returns has at most maxLength
\* characters, for every text and every maxLength >= 1.
C31_SplitTerminatesChunksFit ==
    /\ \A i \in 1..Len(chunks) : Len(chunks[i]) <= splitMax
    /\ splitPc = "loop" => Len(chunks) + Len(remaining) <= Len(splitText)
    /\ splitPc = "returned" => Len(chunks) >= 1

\* A text without a boundary was cut into three or more chunks by hard splits
\* and the call returned.
C31_Witness ==
    /\ splitPc = "returned"
    /\ Len(chunks) >= 3
    /\ \A i \in 1..Len(splitText) : splitText[i] = "x"
    /\ \A i \in 1..(Len(chunks) - 1) : Len(chunks[i]) = splitMax

\* C32: no handler runs, no agent run is started and no reply is sent for an
\* update whose sender is missing or not in config.allowedUserIds; the
\* middleware drops it before the handlers.
C32_UnauthorizedDropped ==
    /\ \A from \in handled \cup replied \cup agentRuns :
          from.present /\ from.id \in allowedUserIds
    /\ authPc = "handlers" =>
          update.from.present /\ update.from.id \in allowedUserIds

\* A text message of a user who is not in the list was dropped by the
\* middleware, after a message of an allowed user had started an agent run.
C32_Witness ==
    /\ authPc = "idle"
    /\ update = Update(From(TRUE, 222), "text")
    /\ agentRuns = {From(TRUE, 111)}
    /\ replied = {From(TRUE, 111)}

====
